---- MODULE Spec2Model ----
(***************************************************************************)
(* Dividend screener: screener.py (ticker list -> fetch -> normalise ->    *)
(* rows -> CSV/HTML), src/evaluator.py (score_row / signal),               *)
(* src/portfolio_actions.py (decide_actions) and src/portfolio_ingest.py   *)
(* (load_positions_from_snowball).                                         *)
(*                                                                         *)
(* Numbers.  Python floats are modelled in fixed point:                    *)
(*   - ratios, yields and percentages in units of 1/Unit (Unit = 10^5);    *)
(*   - prices in units of 1/PriceUnit (cents).                             *)
(* An Optional[float] is the empty tuple (None) or a one-element tuple.    *)
(* Text is a tuple of one-character strings, so that strip / lower /       *)
(* substring tests are computed, not assumed.                              *)
(***************************************************************************)
EXTENDS Integers, Sequences, FiniteSets, TLC

VARIABLES
    \* ---- screener.py main() ----
    pc,           \* position of main(): "start","alias","portfolio","loop","finish","done","raised"
    env,          \* the files main() finds: alias file, portfolio file, ticker sources
    raw_tickers,  \* merged ticker list                              (screener.py:797)
    tickers,      \* List[Tuple[input_ticker, yahoo_ticker]]        (screener.py:813)
    alias_by_input, \* Dict[str,str]: input ticker -> alias          (screener.py:803)
    portfolio_set,  \* set of owned provider tickers                 (screener.py:819)
    idx,          \* number of tickers the for-loop has consumed     (screener.py:824)
    fetched,      \* the provider's answers so far, one per consumed ticker
    rows,         \* rows: List[Dict]                                (screener.py:821)
    failures,     \* failures counter                                (screener.py:822)
    table,        \* the sorted DataFrame written to CSV/HTML        (screener.py:912-920)
    written,      \* which artifacts were written: subset of {"csv","html"}
    exit_code,    \* process exit status, -1 while running
    \* ---- pure-function harnesses ----
    f_in,         \* input drawn for the function under study
    f_out,        \* its result (<<>> before the call)
    f_pc          \* "idle" | "ready" | "called"

mainVars == <<pc, env, raw_tickers, tickers, alias_by_input, portfolio_set, idx, fetched, rows,
              failures, table, written, exit_code>>
funVars  == <<f_in, f_out, f_pc>>
vars     == <<mainVars, funVars>>

-----------------------------------------------------------------------------
(* Fixed-point scales and Optional values *)

Unit      == 10^5          \* 1.0 as a ratio; 0.031 is 3100
PriceUnit == 10^2          \* 1.00 as a price

None      == <<>>
Some(v)   == <<v>>
IsNone(x) == x = <<>>
Val(x)    == x[1]

\* n/d as a ratio in fixed point (n/d exact for the literals of the code)
Frac(n, d) == (n * Unit) \div d

Max2(a, b) == IF a >= b THEN a ELSE b
Min2(a, b) == IF a <= b THEN a ELSE b
Abs(a)     == IF a < 0 THEN -a ELSE a

-----------------------------------------------------------------------------
(* Text as tuples of characters *)

UpperChars == <<"A","B","C","D","E","F","G","H","I","J","K","L","M",
                "N","O","P","Q","R","S","T","U","V","W","X","Y","Z">>
LowerChars == <<"a","b","c","d","e","f","g","h","i","j","k","l","m",
                "n","o","p","q","r","s","t","u","v","w","x","y","z">>

\* str.lower() on one character
LowerChar(c) ==
    IF \E i \in 1..26 : UpperChars[i] = c
    THEN LowerChars[CHOOSE i \in 1..26 : UpperChars[i] = c]
    ELSE c

\* str.upper() on one character
UpperChar(c) ==
    IF \E i \in 1..26 : LowerChars[i] = c
    THEN UpperChars[CHOOSE i \in 1..26 : LowerChars[i] = c]
    ELSE c

StrLower(s) == [i \in 1..Len(s) |-> LowerChar(s[i])]
StrUpper(s) == [i \in 1..Len(s) |-> UpperChar(s[i])]

\* str.strip(): drop leading and trailing blanks
RECURSIVE LStrip(_)
LStrip(s) == IF s # <<>> /\ Head(s) = " " THEN LStrip(Tail(s)) ELSE s
RECURSIVE RStrip(_)
RStrip(s) == IF s # <<>> /\ s[Len(s)] = " " THEN RStrip(SubSeq(s, 1, Len(s) - 1)) ELSE s
Strip(s)  == RStrip(LStrip(s))

\* str.replace(a, b) for single characters
ReplaceChar(s, a, b) == [i \in 1..Len(s) |-> IF s[i] = a THEN b ELSE s[i]]

\* Python's `sub in s`
Contains(sub, s) ==
    \E i \in 0..(Len(s) - Len(sub)) : SubSeq(s, i + 1, i + Len(sub)) = sub

\* Python's s.endswith(suf)
EndsWith(s, suf) ==
    Len(s) >= Len(suf) /\ SubSeq(s, Len(s) - Len(suf) + 1, Len(s)) = suf

-----------------------------------------------------------------------------
(* screener.py: dividend yield normalisation *)

\* _safe_float on a provider number: None stays None, a finite number passes.
\* (NaN/inf/blank text map to None in the code; they are the None input here.)
_safe_float(x) == x

\* round(x, 2) on a value in units of 1/Unit: nearest multiple of Unit/100,
\* ties to the even multiple (Python's round).
_round2(x) ==
    IF IsNone(x) THEN None
    ELSE LET step == Unit \div 100
             q    == Val(x) \div step
             r    == Val(x) % step
         IN  Some(IF 2 * r < step THEN q * step
                  ELSE IF 2 * r > step THEN (q + 1) * step
                  ELSE IF q % 2 = 0 THEN q * step ELSE (q + 1) * step)

_normalize_dividend_yield_strict(raw) ==
    LET v == _safe_float(raw)
    IN  IF IsNone(v) \/ Val(v) < 0 THEN None
        ELSE IF Val(v) < Frac(30, 100) THEN v
        ELSE IF Val(v) <= 100 * Unit THEN Some(Val(v) \div 100)
        ELSE Some(Val(v) \div 10000)

\* _normalize_dividend_yield: a fraction (<= 0.30) is kept, a percentage
\* (<= 100) is divided by 100, anything larger by 10000.
_normalize_dividend_yield(raw) ==
    LET v == _safe_float(raw)
    IN  IF IsNone(v) \/ Val(v) < 0 THEN None
        ELSE IF Val(v) <= Frac(30, 100) THEN v
        ELSE IF Val(v) <= 100 * Unit THEN Some(Val(v) \div 100)
        ELSE Some(Val(v) \div 10000)

_sanity_div_yield_no_ceiling(y) ==
    IF IsNone(y) \/ Val(y) < 0 THEN None ELSE y

\* _sanity_div_yield: the final gate, anything above 40% is dropped.
_sanity_div_yield(y) ==
    IF IsNone(y) \/ Val(y) < 0 THEN None
    ELSE IF Val(y) > Frac(40, 100) THEN None
    ELSE y

-----------------------------------------------------------------------------
(* screener.py: _fetch_one *)

\* _first_non_null(*vals): the first value that is neither None nor blank text
\* (a number is never blank; a text value is blank when strip() empties it)
RECURSIVE _first_non_null(_)
_first_non_null(vals) ==
    IF vals = <<>> THEN None
    ELSE IF IsNone(Head(vals)) THEN _first_non_null(Tail(vals))
    ELSE Head(vals)

RECURSIVE _first_non_null_str(_)
_first_non_null_str(vals) ==
    IF vals = <<>> THEN None
    ELSE IF IsNone(Head(vals)) \/ Strip(Val(Head(vals))) = <<>>
         THEN _first_non_null_str(Tail(vals))
    ELSE Head(vals)

\* _safe_str: None -> "", otherwise the stripped text
_safe_str(x) == IF IsNone(x) THEN <<>> ELSE Strip(Val(x))

\* The DividendYield _fetch_one stores (screener.py:396-397)
_fetch_one_yield(resp) ==
    LET raw_y == _first_non_null(<<resp.dividendYield, resp.yield>>)
    IN  _sanity_div_yield(_normalize_dividend_yield(raw_y))

\* _fetch_one(ticker): (data, err).  resp is what the provider does for this
\* ticker: kind "raise" (an exception with message resp.msg escapes to the
\* outer except), "empty" (fast_info and info both empty or both raising) or
\* "data" (at least one of them is non-empty).
_fetch_one(resp) ==
    IF resp.kind = "raise" THEN [data |-> None, err |-> Some(resp.msg)]
    ELSE IF resp.kind = "empty"
    THEN [data |-> None, err |-> Some("No data returned (possible delisted / quote not found)")]
    ELSE [data |-> Some([
              Price           |-> _safe_float(_first_non_null(<<resp.last_price, resp.regularMarketPrice>>)),
              Sector          |-> _safe_str(_first_non_null_str(<<resp.sector, resp.industry>>)),
              DividendYield   |-> _fetch_one_yield(resp),
              PayoutRatio     |-> _safe_float(resp.payoutRatio),
              PE              |-> _safe_float(resp.trailingPE),
              TargetMeanPrice |-> _safe_float(resp.targetMeanPrice)]),
          err |-> None]

-----------------------------------------------------------------------------
(* screener.py: per-row metrics *)

DotCO == <<".", "C", "O">>

\* _infer_country_from_ticker
_infer_country_from_ticker(yahoo_ticker) ==
    IF EndsWith(StrUpper(yahoo_ticker), DotCO) THEN "DK" ELSE "US"

RealEstate == <<"r","e","a","l"," ","e","s","t","a","t","e">>
Energy     == <<"e","n","e","r","g","y">>
Financial  == <<"f","i","n","a","n","c","i","a","l">>

\* _should_flag_payout without the sector exceptions
_should_flag_payout_any_sector(sector, payout_ratio_pct) ==
    IF IsNone(payout_ratio_pct) THEN FALSE
    ELSE IF Val(payout_ratio_pct) <= 90 * Unit THEN FALSE
    ELSE TRUE

\* _should_flag_payout(sector, payout_ratio_pct)
_should_flag_payout(sector, payout_ratio_pct) ==
    IF IsNone(payout_ratio_pct) THEN FALSE
    ELSE IF Val(payout_ratio_pct) <= 90 * Unit THEN FALSE
    ELSE LET s == StrLower(Strip(sector))
         IN  IF Contains(RealEstate, s) THEN FALSE
             ELSE IF Contains(Energy, s) THEN FALSE
             ELSE IF Contains(Financial, s) THEN FALSE
             ELSE TRUE

\* _calc_upside with the guard `price == 0` in place of `price <= 0`
_calc_upside_zero_guard(price, target) ==
    IF IsNone(price) \/ IsNone(target) \/ Val(price) = 0 THEN None
    ELSE Some((Val(target) * Unit) \div Val(price) - Unit)

\* _calc_upside(price, target): target/price - 1 as a ratio; prices in cents
_calc_upside(price, target) ==
    IF IsNone(price) \/ IsNone(target) \/ Val(price) <= 0 THEN None
    ELSE Some((Val(target) * Unit) \div Val(price) - Unit)

\* Python's `x or 0.0` on an Optional[float]
OrZero(x) == IF IsNone(x) THEN 0 ELSE Val(x)

\* _calc_total_return_est(div_yield, upside)
_calc_total_return_est(div_yield, upside) ==
    IF IsNone(div_yield) /\ IsNone(upside) THEN None
    ELSE Some(OrZero(div_yield) + OrZero(upside))

\* _make_action(total_return_est, div_yield)
_make_action(total_return_est, div_yield) ==
    IF IsNone(total_return_est)
    THEN IF ~IsNone(div_yield) /\ Val(div_yield) >= Frac(4, 100) THEN "HOLD" ELSE "WATCH"
    ELSE IF Val(total_return_est) >= Frac(15, 100) THEN "STRONG_BUY"
    ELSE IF Val(total_return_est) >= Frac(10, 100) THEN "BUY"
    ELSE IF Val(total_return_est) >= Frac(5, 100) THEN "HOLD"
    ELSE "WATCH"

\* _portfolio_action(is_in_portfolio, action)
_portfolio_action(is_in_portfolio, action) ==
    IF is_in_portfolio
    THEN (IF action = "WATCH" THEN "REVIEW" ELSE "HOLD")
    ELSE (IF action \in {"BUY", "STRONG_BUY"} THEN "NEW_CANDIDATE" ELSE "")

\* _make_signal giving GOLD on the total return alone
_make_signal_gold_on_return(total_return_pct, upside_pct, sector, payout_ratio_pct) ==
    LET tr == total_return_pct
        up == upside_pct
        label ==
            IF ~IsNone(up) /\ Val(up) < 0 THEN "WATCH"
            ELSE IF IsNone(tr) THEN "WATCH"
            ELSE IF Val(tr) >= 15 * Unit THEN "GOLD"
            ELSE IF Val(tr) >= 10 * Unit THEN "BUY"
            ELSE IF Val(tr) >= 5 * Unit THEN "HOLD"
            ELSE "WATCH"
    IN  [label |-> label, warn |-> _should_flag_payout(sector, payout_ratio_pct)]

\* _make_signal(total_return_pct, upside_pct, sector, payout_ratio_pct):
\* the label and whether the payout warning marker is appended
_make_signal(total_return_pct, upside_pct, sector, payout_ratio_pct) ==
    LET tr == total_return_pct
        up == upside_pct
        label ==
            IF ~IsNone(up) /\ Val(up) < 0 THEN "WATCH"
            ELSE IF IsNone(tr) THEN "WATCH"
            ELSE IF Val(tr) >= 15 * Unit /\ (~IsNone(up) /\ Val(up) >= 10 * Unit) THEN "GOLD"
            ELSE IF Val(tr) >= 10 * Unit THEN "BUY"
            ELSE IF Val(tr) >= 5 * Unit THEN "HOLD"
            ELSE "WATCH"
    IN  [label |-> label, warn |-> _should_flag_payout(sector, payout_ratio_pct)]

\* x * 100.0 on an Optional[float]
Times100(x) == IF IsNone(x) THEN None ELSE Some(Val(x) * 100)

NoSignal == [label |-> "", warn |-> FALSE]

\* The row main() appends for a failed fetch (screener.py:829-845)
ErrorRow(yahoo_ticker, alias, err, pset) ==
    [Ticker |-> yahoo_ticker, Alias |-> alias,
     Country |-> _infer_country_from_ticker(yahoo_ticker), Sector |-> <<>>,
     Portfolio |-> IF yahoo_ticker \in pset THEN "Yes" ELSE "No",
     PortfolioAction |-> "", Signal |-> NoSignal, Action |-> "",
     Price |-> None, DividendYield_pct |-> None, PayoutRatio_pct |-> None, PE |-> None,
     TargetMeanPrice |-> None, Upside_pct |-> None, Upside_Yield_pct |-> None,
     TotalReturnEst_pct |-> None,
     Status |-> "ERROR",
     Error |-> IF IsNone(err) \/ Val(err) = "" THEN "Unknown error" ELSE Val(err)]

\* The row main() appends for a successful fetch (screener.py:847-910)
OkRow(yahoo_ticker, alias, data, pset) ==
    LET sector    == data.Sector
        price     == _safe_float(data.Price)
        div_yield == _safe_float(data.DividendYield)
        payout    == _safe_float(data.PayoutRatio)
        target    == _safe_float(data.TargetMeanPrice)
        upside    == _calc_upside(price, target)
        total_return_est == _calc_total_return_est(div_yield, upside)
        action    == _make_action(total_return_est, div_yield)
        in_portfolio == yahoo_ticker \in pset
        div_yield_pct == Times100(div_yield)
        upside_pct    == Times100(upside)
        upside_yield_pct ==
            IF ~IsNone(div_yield_pct) \/ ~IsNone(upside_pct)
            THEN Some(OrZero(div_yield_pct) + OrZero(upside_pct)) ELSE None
        total_return_pct == Times100(total_return_est)
        payout_pct       == Times100(payout)
    IN  [Ticker |-> yahoo_ticker, Alias |-> alias,
         Country |-> _infer_country_from_ticker(yahoo_ticker), Sector |-> sector,
         Portfolio |-> IF in_portfolio THEN "Yes" ELSE "No",
         PortfolioAction |-> _portfolio_action(in_portfolio, action),
         Signal |-> _make_signal(total_return_pct, upside_pct, sector, payout_pct),
         Action |-> action,
         Price |-> price, DividendYield_pct |-> _round2(div_yield_pct),
         PayoutRatio_pct |-> _round2(payout_pct), PE |-> _round2(data.PE),
         TargetMeanPrice |-> target, Upside_pct |-> _round2(upside_pct),
         Upside_Yield_pct |-> _round2(upside_yield_pct),
         TotalReturnEst_pct |-> _round2(total_return_pct),
         Status |-> "OK", Error |-> ""]

-----------------------------------------------------------------------------
(* screener.py: ticker list, alias map, portfolio set *)

RECURSIVE MergeInto(_, _)
MergeInto(out, lst) ==
    IF lst = <<>> THEN out
    ELSE LET x == Strip(Head(lst))
         IN  IF x = <<>> \/ (\E i \in 1..Len(out) : out[i] = x)
             THEN MergeInto(out, Tail(lst))
             ELSE MergeInto(Append(out, x), Tail(lst))

\* _merge_unique_keep_order(lists)
RECURSIVE MergeLists(_, _)
MergeLists(out, lists) ==
    IF lists = <<>> THEN out ELSE MergeLists(MergeInto(out, Head(lists)), Tail(lists))

_merge_unique_keep_order(lists) == MergeLists(<<>>, lists)

\* _read_all_tickers: base, master and live are the cleaned lines of the
\* three sources (an absent source is the empty list)
_read_all_tickers(e) == _merge_unique_keep_order(<<e.base, e.master, e.live>>)

\* One row of the frame _load_alias_map builds from the alias file f:
\* the input / yahoo / alias columns it picked, each stripped, with the
\* missing one of input / yahoo falling back on the other.
AliasOutRow(f, r) ==
    LET c_input == IF "input" \in f.cols THEN Strip(r.input)
                   ELSE IF "yahoo" \in f.cols THEN Strip(r.yahoo) ELSE <<>>
        c_yahoo == IF "yahoo" \in f.cols THEN Strip(r.yahoo) ELSE c_input
        c_alias == IF "alias" \in f.cols THEN Strip(r.alias) ELSE <<>>
    IN  [input_ticker |-> c_input, yahoo_ticker |-> c_yahoo, alias |-> c_alias]

\* out[out.yahoo_ticker != ""].drop_duplicates(subset=["yahoo_ticker"], keep="first")
RECURSIVE AliasKeep(_, _)
AliasKeep(out, rs) ==
    IF rs = <<>> THEN out
    ELSE LET r == Head(rs)
         IN  IF r.yahoo_ticker = <<>> \/ (\E i \in 1..Len(out) : out[i].yahoo_ticker = r.yahoo_ticker)
             THEN AliasKeep(out, Tail(rs))
             ELSE AliasKeep(Append(out, r), Tail(rs))

\* _load_alias_map(alias_csv) for a file that exists and parses; a missing
\* file gives the empty frame
_load_alias_map(f) ==
    IF f.kind = "missing" THEN <<>>
    ELSE AliasKeep(<<>>, [i \in 1..Len(f.rows) |-> AliasOutRow(f, f.rows[i])])

\* main(): yahoo_by_input / alias_by_input, filled row by row, later rows
\* overwriting earlier ones (screener.py:805-811).  A dict is a function.
EmptyDict == [k \in {} |-> <<>>]
DictPut(d, k, v) == [x \in (DOMAIN d) \cup {k} |-> IF x = k THEN v ELSE d[x]]
DictGet(d, k, default) == IF k \in DOMAIN d THEN d[k] ELSE default

RECURSIVE YahooByInput(_, _)
YahooByInput(d, alias_df) ==
    IF alias_df = <<>> THEN d
    ELSE LET r == Head(alias_df)
         IN  IF r.input_ticker # <<>>
             THEN YahooByInput(DictPut(d, r.input_ticker,
                      IF r.yahoo_ticker # <<>> THEN r.yahoo_ticker ELSE r.input_ticker),
                      Tail(alias_df))
             ELSE YahooByInput(d, Tail(alias_df))

RECURSIVE AliasByInput(_, _)
AliasByInput(d, alias_df) ==
    IF alias_df = <<>> THEN d
    ELSE LET r == Head(alias_df)
         IN  IF r.input_ticker # <<>>
             THEN AliasByInput(DictPut(d, r.input_ticker, r.alias), Tail(alias_df))
             ELSE AliasByInput(d, Tail(alias_df))

Nan == <<"n", "a", "n">>

\* _load_portfolio_holdings(): the first candidate file that exists decides.
\* Every failure (unreadable file, no ticker column) is caught and gives set().
_load_portfolio_holdings(f) ==
    IF f.kind \in {"missing", "malformed", "nocolumn"} THEN {}
    ELSE {x \in {Strip(f.cells[i]) : i \in 1..Len(f.cells)} : x # <<>> /\ StrLower(x) # Nan}

-----------------------------------------------------------------------------
(* screener.py: the final sort of the result table *)

\* -1 when x sorts before y, 1 when after, 0 when tied: descending, None last
CmpDescNaLast(x, y) ==
    IF IsNone(x) /\ IsNone(y) THEN 0
    ELSE IF IsNone(x) THEN 1
    ELSE IF IsNone(y) THEN -1
    ELSE IF Val(x) > Val(y) THEN -1
    ELSE IF Val(x) < Val(y) THEN 1 ELSE 0

\* "ERROR" < "OK" as strings, ascending
CmpStatus(a, b) ==
    IF a = b THEN 0 ELSE IF a = "ERROR" THEN -1 ELSE 1

\* a sorts strictly before b under by=[Status, TotalReturnEst_%, DividendYield_%],
\* ascending=[True, False, False], na_position="last"
Before(a, b) ==
    LET c1 == CmpStatus(a.Status, b.Status)
        c2 == CmpDescNaLast(a.TotalReturnEst_pct, b.TotalReturnEst_pct)
        c3 == CmpDescNaLast(a.DividendYield_pct, b.DividendYield_pct)
    IN  c1 < 0 \/ (c1 = 0 /\ (c2 < 0 \/ (c2 = 0 /\ c3 < 0)))

\* stable insertion of r into the sorted list s
RECURSIVE InsertRow(_, _)
InsertRow(r, s) ==
    IF s = <<>> THEN <<r>>
    ELSE IF Before(r, Head(s)) THEN <<r>> \o s
    ELSE <<Head(s)>> \o InsertRow(r, Tail(s))

RECURSIVE SortRows(_, _)
SortRows(acc, rs) ==
    IF rs = <<>> THEN acc ELSE SortRows(InsertRow(Head(rs), acc), Tail(rs))

sort_values(rs) == SortRows(<<>>, rs)

-----------------------------------------------------------------------------
(* Inputs of a run of main() *)

MaxSrcLen == 1      \* longest ticker source (base, master, live) considered

BoundedSeq(S, n) == UNION {[1..k -> S] : k \in 0..n}

T_AA   == <<"A", "A">>
T_BCO  == <<"B", ".", "c", "o">>
TickerNames == {T_AA, T_BCO}

Technology  == <<"T","e","c","h","n","o","l","o","g","y">>
REIT_Sector == <<"R","e","a","l"," ","E","s","t","a","t","e">>
AliasAlpha  == <<"A","l","p","h","a">>

\* The alias file data/ticker_alias.csv: absent, unparseable (pd.read_csv
\* raises), or parsed with the columns it has
AliasFiles ==
    { [kind |-> "missing",   cols |-> {}, rows |-> <<>>],
      [kind |-> "malformed", cols |-> {}, rows |-> <<>>],
      [kind |-> "ok", cols |-> {"input", "yahoo", "alias"},
       rows |-> << [input |-> T_AA, yahoo |-> T_BCO, alias |-> AliasAlpha] >>],
      [kind |-> "ok", cols |-> {"input", "alias"},
       rows |-> << [input |-> <<" ">> \o T_AA, yahoo |-> <<>>, alias |-> AliasAlpha],
                   [input |-> T_AA, yahoo |-> <<>>, alias |-> <<>>] >>] }

\* The first existing portfolio candidate file
PortfolioFiles ==
    { [kind |-> "missing",   cells |-> <<>>],
      [kind |-> "malformed", cells |-> <<>>],
      [kind |-> "nocolumn",  cells |-> <<>>],
      [kind |-> "ok",        cells |-> << T_BCO \o <<" ">>, Nan >>] }

BlankResp ==
    [kind |-> "data", msg |-> "", last_price |-> None, regularMarketPrice |-> None,
     sector |-> None, industry |-> None, dividendYield |-> None, yield |-> None,
     payoutRatio |-> None, trailingPE |-> None, targetMeanPrice |-> None]

\* What the provider may do for one ticker
Responses ==
    { [BlankResp EXCEPT !.kind = "raise", !.msg = "boom"],
      [BlankResp EXCEPT !.kind = "raise", !.msg = ""],
      [BlankResp EXCEPT !.kind = "empty"],
      \* 50.00 -> target 60.00, 3% yield as a fraction, payout 50%
      [BlankResp EXCEPT !.last_price = Some(50 * PriceUnit), !.targetMeanPrice = Some(60 * PriceUnit),
                        !.dividendYield = Some(Frac(3, 100)), !.payoutRatio = Some(Frac(50, 100)),
                        !.trailingPE = Some(15 * Unit), !.sector = Some(Technology)],
      \* 4.5 as a percentage, payout 150% in a sheltered sector, no target
      [BlankResp EXCEPT !.regularMarketPrice = Some(20 * PriceUnit),
                        !.dividendYield = Some(Frac(45, 10)), !.payoutRatio = Some(Frac(150, 100)),
                        !.industry = Some(REIT_Sector)],
      \* junk yield (50 -> 0.5), payout 95%, no price
      [BlankResp EXCEPT !.dividendYield = Some(50 * Unit), !.payoutRatio = Some(Frac(95, 100)),
                        !.sector = Some(Technology)],
      \* target below price, yield from the fallback field
      [BlankResp EXCEPT !.last_price = Some(50 * PriceUnit), !.targetMeanPrice = Some(40 * PriceUnit),
                        !.yield = Some(Frac(2, 100))] }

Envs ==
    [base : BoundedSeq(TickerNames, MaxSrcLen), master : BoundedSeq(TickerNames, MaxSrcLen),
     live : BoundedSeq(TickerNames, MaxSrcLen), alias : AliasFiles, portfolio : PortfolioFiles]

NoEnv == [base |-> <<>>, master |-> <<>>, live |-> <<>>,
          alias |-> [kind |-> "missing", cols |-> {}, rows |-> <<>>],
          portfolio |-> [kind |-> "missing", cells |-> <<>>]]

-----------------------------------------------------------------------------
(* screener.py main(), step by step *)

MainIdle ==
    /\ raw_tickers = <<>> /\ tickers = <<>> /\ alias_by_input = EmptyDict /\ portfolio_set = {}
    /\ idx = 0 /\ fetched = <<>> /\ rows = <<>> /\ failures = 0
    /\ table = <<>> /\ written = {} /\ exit_code = -1

FunIdle == f_pc = "idle" /\ f_in = <<>> /\ f_out = <<>>

Init ==
    /\ pc = "start"
    /\ env \in Envs
    /\ MainIdle
    /\ FunIdle

\* raw_tickers = _read_all_tickers(); return 2 when empty (screener.py:797-800)
ReadTickers ==
    /\ pc = "start"
    /\ raw_tickers' = _read_all_tickers(env)
    /\ IF raw_tickers' = <<>>
       THEN pc' = "done" /\ exit_code' = 2
       ELSE pc' = "alias" /\ exit_code' = exit_code
    /\ UNCHANGED <<env, tickers, alias_by_input, portfolio_set, idx, fetched, rows, failures, table, written>>
    /\ UNCHANGED funVars

\* alias_df = _load_alias_map(ALIAS_CSV) and the two dicts and the ticker
\* pairs built from it (screener.py:802-816).  pd.read_csv is not guarded:
\* an unparseable alias file ends main() with the exception, and the
\* __main__ wrapper exits 10 (screener.py:938-945).
LoadAlias ==
    /\ pc = "alias"
    /\ IF env.alias.kind = "malformed"
       THEN /\ pc' = "raised" /\ exit_code' = 10
            /\ UNCHANGED <<tickers, alias_by_input>>
       ELSE LET alias_df == _load_alias_map(env.alias)
                yahoo_by_input == YahooByInput(EmptyDict, alias_df)
            IN  /\ alias_by_input' = AliasByInput(EmptyDict, alias_df)
                /\ tickers' = [i \in 1..Len(raw_tickers) |->
                                 <<raw_tickers[i], DictGet(yahoo_by_input, raw_tickers[i], raw_tickers[i])>>]
                /\ pc' = "portfolio" /\ exit_code' = exit_code
    /\ UNCHANGED <<env, raw_tickers, portfolio_set, idx, fetched, rows, failures, table, written>>
    /\ UNCHANGED funVars

\* portfolio_set = _load_portfolio_holdings() (screener.py:819)
LoadPortfolio ==
    /\ pc = "portfolio"
    /\ portfolio_set' = _load_portfolio_holdings(env.portfolio)
    /\ pc' = "loop"
    /\ UNCHANGED <<env, raw_tickers, tickers, alias_by_input, idx, fetched, rows, failures, table, written, exit_code>>
    /\ UNCHANGED funVars

\* The row one iteration of the for-loop appends (screener.py:824-910)
LoopRow(input_ticker, yahoo_ticker, aliases, pset, resp) ==
    LET alias == DictGet(aliases, input_ticker, <<>>)
        res   == _fetch_one(resp)
    IN  IF IsNone(res.data)
        THEN ErrorRow(yahoo_ticker, alias, res.err, pset)
        ELSE OkRow(yahoo_ticker, alias, Val(res.data), pset)

\* FetchStep with _fetch_one's outer try/except missing: a provider exception
\* leaves the loop and main()
FetchStep_unguarded ==
    /\ pc = "loop"
    /\ idx < Len(tickers)
    /\ \E resp \in Responses :
         LET t   == tickers[idx + 1]
             row == LoopRow(t[1], t[2], alias_by_input, portfolio_set, resp)
         IN  /\ fetched' = Append(fetched, resp)
             /\ IF resp.kind = "raise"
                THEN /\ pc' = "raised" /\ exit_code' = 10
                     /\ UNCHANGED <<rows, failures>>
                ELSE /\ rows' = Append(rows, row)
                     /\ failures' = IF row.Status = "ERROR" THEN failures + 1 ELSE failures
                     /\ UNCHANGED <<pc, exit_code>>
    /\ idx' = idx + 1
    /\ UNCHANGED <<env, raw_tickers, tickers, alias_by_input, portfolio_set, table, written>>
    /\ UNCHANGED funVars

\* One iteration of `for input_ticker, yahoo_ticker in tickers`
FetchStep ==
    /\ pc = "loop"
    /\ idx < Len(tickers)
    /\ \E resp \in Responses :
         LET t   == tickers[idx + 1]
             row == LoopRow(t[1], t[2], alias_by_input, portfolio_set, resp)
         IN  /\ fetched' = Append(fetched, resp)
             /\ rows' = Append(rows, row)
             /\ failures' = IF row.Status = "ERROR" THEN failures + 1 ELSE failures
    /\ idx' = idx + 1
    /\ UNCHANGED <<pc, env, raw_tickers, tickers, alias_by_input, portfolio_set, table, written, exit_code>>
    /\ UNCHANGED funVars

\* Finish failing the job as soon as one fetch failed
Finish_strict ==
    /\ pc = "loop"
    /\ idx = Len(tickers)
    /\ table' = sort_values(rows)
    /\ written' = {"csv", "html"}
    /\ exit_code' = IF failures > 0 THEN 3 ELSE 0
    /\ pc' = "done"
    /\ UNCHANGED <<env, raw_tickers, tickers, alias_by_input, portfolio_set, idx, fetched, rows, failures>>
    /\ UNCHANGED funVars

\* After the loop: sort, write the CSV and the HTML, and return 3 when no
\* row is OK, else 0 (screener.py:912-935)
Finish ==
    /\ pc = "loop"
    /\ idx = Len(tickers)
    /\ table' = sort_values(rows)
    /\ written' = {"csv", "html"}
    /\ LET ok_rows == Cardinality({i \in 1..Len(rows) : rows[i].Status = "OK"})
       IN  exit_code' = IF ok_rows = 0 THEN 3 ELSE 0
    /\ pc' = "done"
    /\ UNCHANGED <<env, raw_tickers, tickers, alias_by_input, portfolio_set, idx, fetched, rows, failures>>
    /\ UNCHANGED funVars

Next == ReadTickers \/ LoadAlias \/ LoadPortfolio \/ FetchStep \/ Finish

Spec == Init /\ [][Next]_vars

-----------------------------------------------------------------------------
(* Properties of main() *)

FetchFailed(resp) == resp.kind \in {"raise", "empty"}

OkRows == {i \in 1..Len(rows) : rows[i].Status = "OK"}

\* t holds the rows of r in some order
IsPermutation(t, r) ==
    /\ Len(t) = Len(r)
    /\ \E f \in [1..Len(r) -> 1..Len(r)] :
         /\ \A i, j \in 1..Len(r) : f[i] = f[j] => i = j
         /\ \A i \in 1..Len(r) : t[i] = r[f[i]]

\* C1: whatever the provider does for each ticker (data, no data, an
\* exception), the loop goes on: no fetch outcome ends main() (the only
\* abort is the alias file, before any fetch), the i-th row is the i-th
\* ticker's with Status ERROR exactly when its fetch failed, and when main()
\* returns after the loop the table holds every ticker's row once.
C1_EveryTickerGetsOneRow ==
    /\ pc = "raised" => env.alias.kind = "malformed" /\ fetched = <<>>
    /\ Len(rows) = idx /\ Len(fetched) = idx
    /\ \A i \in 1..Len(rows) :
         /\ rows[i].Ticker = tickers[i][2]
         /\ tickers[i][1] = raw_tickers[i]
         /\ rows[i].Status = IF FetchFailed(fetched[i]) THEN "ERROR" ELSE "OK"
    /\ (pc = "done" /\ exit_code # 2) =>
         /\ idx = Len(raw_tickers)
         /\ IsPermutation(table, rows)

\* a run in which a raising fetch is followed by a good one
C1_Witness ==
    /\ pc = "done" /\ Len(rows) = 2
    /\ fetched[1].kind = "raise" /\ fetched[2].kind = "data"
    /\ rows[1].Status = "ERROR" /\ rows[2].Status = "OK"

\* C2: main() ends non-zero only when no row is OK (the empty ticker list
\* included); with at least one OK row it has written the CSV and the HTML
\* and returns 0, however many fetches failed.
C2_ExitStatus ==
    /\ pc \notin {"done", "raised"} => exit_code = -1
    /\ pc \in {"done", "raised"} =>
         /\ exit_code # -1
         /\ exit_code # 0 => OkRows = {}
         /\ exit_code = 2 <=> (pc = "done" /\ raw_tickers = <<>>)
         /\ OkRows # {} => exit_code = 0 /\ written = {"csv", "html"} /\ pc = "done"

\* a partial success: a failed ticker and an OK ticker, exit status 0
C2_Witness ==
    /\ pc = "done" /\ exit_code = 0 /\ failures >= 1 /\ OkRows # {}
    /\ written = {"csv", "html"}

\* C8: a missing or malformed alias or holdings file never fails the run:
\* main() still returns with one row per ticker, nothing aliased when the
\* alias file is unusable and nothing owned when the holdings file is.
C8_BadFilesNeverFailTheRun ==
    (pc \in {"done", "raised"} /\ raw_tickers # <<>>) =>
        /\ env.alias.kind \in {"missing", "malformed"} =>
             /\ pc = "done" /\ Len(rows) = Len(raw_tickers)
             /\ \A i \in 1..Len(rows) : rows[i].Alias = <<>> /\ rows[i].Ticker = raw_tickers[i]
        /\ env.portfolio.kind \in {"missing", "malformed"} =>
             /\ pc = "done" /\ Len(rows) = Len(raw_tickers)
             /\ \A i \in 1..Len(rows) : rows[i].Portfolio = "No"

\* C13: within one run the Ticker identifiers of the output rows are
\* pairwise distinct, whatever the ticker list and the alias map.
C13_RowTickersDistinct ==
    /\ \A i, j \in 1..Len(rows) : i # j => rows[i].Ticker # rows[j].Ticker
    /\ \A i, j \in 1..Len(table) : i # j => table[i].Ticker # table[j].Ticker

-----------------------------------------------------------------------------
(* One ticker through _fetch_one and the loop body, over a grid of raw yields *)

MaxYieldK == 100    \* raw yields k * 0.005, k * 0.5 and k * 50 for k up to this

YieldStep == Frac(5, 1000)

\* raw provider yields: fraction-scaled, percent-scaled and larger, and negative
RawYieldValues ==
    {k * YieldStep : k \in -2..MaxYieldK}
      \cup {k * YieldStep * 100 : k \in 0..MaxYieldK}
      \cup {k * YieldStep * 10000 : k \in 0..MaxYieldK}

RawYields == {None} \cup {Some(v) : v \in RawYieldValues}

FetchInputs ==
    {r \in Responses : FetchFailed(r)}
      \cup { [BlankResp EXCEPT !.last_price = Some(50 * PriceUnit),
                               !.targetMeanPrice = Some(60 * PriceUnit),
                               !.payoutRatio = Some(Frac(50, 100)),
                               !.sector = Some(Technology),
                               !.dividendYield = y, !.yield = y2]
             : y \in RawYields, y2 \in {None, Some(Frac(45, 10))} }

MainOff == pc = "off" /\ env = NoEnv /\ MainIdle

InitFetch ==
    /\ MainOff
    /\ f_pc = "ready" /\ f_in \in FetchInputs /\ f_out = <<>>

\* data, err = _fetch_one(yahoo_ticker) and the row built from it
FetchCall ==
    /\ pc = "off" /\ f_pc = "ready"
    /\ f_out' = [res |-> _fetch_one(f_in), row |-> LoopRow(T_AA, T_AA, EmptyDict, {}, f_in)]
    /\ f_pc' = "called"
    /\ UNCHANGED <<f_in, mainVars>>

SpecFetch == InitFetch /\ [][FetchCall]_vars

InRange(x, lo, hi) == IsNone(x) \/ (lo <= Val(x) /\ Val(x) <= hi)

\* C9: the DividendYield _fetch_one stores is absent or a fraction in
\* [0, 0.40], whatever the raw provider value; a normalised yield above 0.40
\* is stored as absent and the row's DividendYield_% is absent too.
C9_StoredYieldIsSane ==
    (f_pc = "called" /\ ~IsNone(f_out.res.data)) =>
        LET y == Val(f_out.res.data).DividendYield
            n == _normalize_dividend_yield(_first_non_null(<<f_in.dividendYield, f_in.yield>>))
        IN  /\ InRange(y, 0, Frac(40, 100))
            /\ InRange(f_out.row.DividendYield_pct, 0, 40 * Unit)
            /\ (~IsNone(n) /\ Val(n) > Frac(40, 100)) =>
                   IsNone(y) /\ IsNone(f_out.row.DividendYield_pct)
            /\ (~IsNone(n) /\ Val(n) <= Frac(40, 100)) => y = n

\* C17: an instrument whose dividend yield exceeds the special-dividend
\* threshold (12%) never receives the GOLD or BUY signal, whatever its
\* upside or total-return estimate.
C17_SpecialDividendNeverBuy ==
    (f_pc = "called" /\ f_out.row.Status = "OK") =>
        LET n == _normalize_dividend_yield(_first_non_null(<<f_in.dividendYield, f_in.yield>>))
        IN  (~IsNone(n) /\ Val(n) > Frac(12, 100)) =>
                f_out.row.Signal.label \notin {"GOLD", "BUY"}

\* a percent-scaled 45.0 normalises to 0.45 and is dropped
C9_Witness ==
    /\ f_pc = "called" /\ ~IsNone(f_out.res.data)
    /\ f_in.dividendYield = Some(45 * Unit)
    /\ _normalize_dividend_yield(f_in.dividendYield) = Some(Frac(45, 100))
    /\ IsNone(Val(f_out.res.data).DividendYield)
    /\ f_out.row.Status = "OK" /\ IsNone(f_out.row.DividendYield_pct)

-----------------------------------------------------------------------------
(* The normaliser applied again to its own result *)

InitYield ==
    /\ MainOff
    /\ f_pc = "ready" /\ f_in \in RawYields /\ f_out = <<>>

\* the value the next normalisation reads: the raw value, then each result
NormInput(i) == IF i = 1 THEN f_in ELSE f_out[i - 1]

\* y = _normalize_dividend_yield(y), at most twice
NormalizeStep ==
    /\ pc = "off" /\ f_pc \in {"ready", "called"}
    /\ Len(f_out) < 2
    /\ f_out' = Append(f_out, _normalize_dividend_yield(NormInput(Len(f_out) + 1)))
    /\ f_pc' = "called"
    /\ UNCHANGED <<f_in, mainVars>>

SpecYield == InitYield /\ [][NormalizeStep]_vars

\* a value the sanity gate accepts
Canonical(y) == ~IsNone(y) /\ _sanity_div_yield(y) = y

\* C10 as claimed: every canonical yield (0 <= y <= 0.40) is returned
\* unchanged by the normaliser.
C10_IdempotentOnCanonical ==
    \A i \in 1..Len(f_out) : Canonical(NormInput(i)) => f_out[i] = NormInput(i)

\* C10 amended: every canonical yield up to the normaliser's own fraction
\* threshold (0 <= y <= 0.30) is returned unchanged, so normalising such a
\* value twice equals normalising it once; a canonical yield above 0.30 is
\* read as a percentage and divided by 100.
C10_IdempotentUpToThreshold ==
    \A i \in 1..Len(f_out) :
        Canonical(NormInput(i)) =>
            IF Val(NormInput(i)) <= Frac(30, 100)
            THEN f_out[i] = NormInput(i)
            ELSE f_out[i] = Some(Val(NormInput(i)) \div 100)

\* 0.30 normalised twice stays 0.30, and 30.0 normalised twice is 0.30 both times
C10_Witness ==
    /\ Len(f_out) = 2
    /\ f_in = Some(30 * Unit)
    /\ f_out[1] = Some(Frac(30, 100)) /\ f_out[2] = f_out[1]

-----------------------------------------------------------------------------
(* src/evaluator.py: score_row *)

\* safe(v): None for a missing (NaN) cell, else float(v)
safe(v) == v

\* Python truthiness of an Optional[float]: None and 0.0 are false
Truthy(x) == ~IsNone(x) /\ Val(x) # 0

\* the points score_row adds up before clamping (evaluator.py:35-78)
RawScore(r) ==
    LET y  == safe(r.DividendYield_pct)
        p  == safe(r.PayoutRatio_pct)
        pe == safe(r.PE)
        s_yield  == IF Truthy(y)
                    THEN (IF 2 * Unit <= Val(y) /\ Val(y) <= 6 * Unit THEN 15
                          ELSE IF Val(y) > 6 * Unit THEN 10 ELSE 0)
                    ELSE 0
        s_payout == IF Truthy(p)
                    THEN (IF Val(p) < 60 * Unit THEN 20
                          ELSE IF Val(p) <= 90 * Unit THEN 10 ELSE -20)
                    ELSE 0
        s_pe     == IF Truthy(pe)
                    THEN (IF Val(pe) < 20 * Unit THEN 15
                          ELSE IF Val(pe) <= 30 * Unit THEN 5 ELSE 0)
                    ELSE 0
        s_class  == IF r.DividendClass = "King" THEN 25
                    ELSE IF r.DividendClass = "Aristocrat" THEN 20
                    ELSE IF r.DividendClass = "Contender" THEN 10 ELSE 0
    IN  s_yield + s_payout + s_pe + s_class

\* the reasons score_row collects, in order
Reasons(r) ==
    LET y == safe(r.DividendYield_pct)
        p == safe(r.PayoutRatio_pct)
    IN  (IF Truthy(y) /\ 2 * Unit <= Val(y) /\ Val(y) <= 6 * Unit THEN <<"Good yield">>
         ELSE IF Truthy(y) /\ Val(y) > 6 * Unit THEN <<"High yield">> ELSE <<>>)
        \o (IF Truthy(p) /\ Val(p) < 60 * Unit THEN <<"Low payout">>
            ELSE IF Truthy(p) /\ Val(p) > 90 * Unit THEN <<"Payout risk">> ELSE <<>>)
        \o (IF r.DividendClass = "King" THEN <<"Dividend King">>
            ELSE IF r.DividendClass = "Aristocrat" THEN <<"Aristocrat">> ELSE <<>>)

score_row_unclamped(r) == [Score |-> Min2(100, RawScore(r)), Why |-> Reasons(r)]

\* score_row(r): (max(0, min(100, score)), reasons)
score_row(r) == [Score |-> Max2(0, Min2(100, RawScore(r))), Why |-> Reasons(r)]

\* signal with strict comparisons
signal_strict(score) ==
    IF score > 85 THEN "GOLD"
    ELSE IF score > 70 THEN "BUY"
    ELSE IF score > 55 THEN "HOLD"
    ELSE "WATCH"

\* signal(score)
signal(score) ==
    IF score >= 85 THEN "GOLD"
    ELSE IF score >= 70 THEN "BUY"
    ELSE IF score >= 55 THEN "HOLD"
    ELSE "WATCH"

\* absent, zero, negative, around each threshold of score_row, and huge
YieldCells  == {None} \cup {Some(v) : v \in {-5 * Unit, 0, 2 * Unit - 1, 2 * Unit, 6 * Unit,
                                             6 * Unit + 1, 10000 * Unit}}
PayoutCells == {None} \cup {Some(v) : v \in {-10 * Unit, 0, 60 * Unit - 1, 60 * Unit, 90 * Unit,
                                             90 * Unit + 1, 10000 * Unit}}
PECells     == {None} \cup {Some(v) : v \in {-3 * Unit, 0, 20 * Unit - 1, 20 * Unit, 30 * Unit,
                                             30 * Unit + 1, 10000 * Unit}}
ClassCells  == {"", "King", "Aristocrat", "Contender", "Challenger"}

ScoreInputs ==
    [DividendYield_pct : YieldCells, PayoutRatio_pct : PayoutCells, PE : PECells,
     DividendClass : ClassCells]

InitScore ==
    /\ MainOff
    /\ f_pc = "ready" /\ f_in \in ScoreInputs /\ f_out = <<>>

\* scores = df.apply(score_row, axis=1); df["Signal"] = df["Score"].apply(signal)
ScoreCall ==
    /\ pc = "off" /\ f_pc = "ready"
    /\ LET sc == score_row(f_in)
       IN  f_out' = [Score |-> sc.Score, Why |-> sc.Why, Signal |-> signal(sc.Score)]
    /\ f_pc' = "called"
    /\ UNCHANGED <<f_in, mainVars>>

SpecScore == InitScore /\ [][ScoreCall]_vars

\* C3: whatever the row holds (absent, zero, negative or huge yield, payout
\* and P/E, any dividend class), the Score returned lies in [0, 100].
C3_ScoreWithinBounds ==
    f_pc = "called" => 0 <= f_out.Score /\ f_out.Score <= 100

\* a payout above 90% with nothing else scores -20 before the clamp and 0 after
C3_Witness ==
    /\ f_pc = "called"
    /\ RawScore(f_in) = -20
    /\ f_in.PayoutRatio_pct = Some(10000 * Unit)
    /\ f_out.Score = 0

\* C24: every label of the evaluator is attainable: for each of GOLD, BUY,
\* HOLD and WATCH some input row (a yield, a payout, a P/E and a dividend
\* class) makes score_row followed by signal return that label.
C24_EveryLabelAttainable ==
    f_pc = "called" =>
        \A l \in {"GOLD", "BUY", "HOLD", "WATCH"} :
            \E r \in ScoreInputs : signal(score_row(r).Score) = l

-----------------------------------------------------------------------------
(* src/portfolio_actions.py: decide_actions *)

\* _safe_numeric(series, default): a missing column or a NaN / non-numeric
\* cell (None here) becomes the default
_safe_numeric(x, default) == IF IsNone(x) THEN default ELSE Val(x)

\* rules.get(key, default), the key being absent when the field is None
RuleGet(x, default) == IF IsNone(x) THEN default ELSE Val(x)

\* the thresholds decide_actions reads from rules (portfolio_actions.py:133-138)
Thresholds(rules) ==
    [max_position_weight |-> RuleGet(rules.max_position_weight, Frac(10, 100)),
     trim_weight         |-> RuleGet(rules.trim_weight, Frac(7, 100)),
     add_weight          |-> RuleGet(rules.add_weight, Frac(2, 100)),
     min_upside_buy      |-> RuleGet(rules.min_upside_buy, Frac(5, 100)),
     min_score_buy       |-> RuleGet(rules.min_score_buy, 60 * Unit),
     avoid_if_no_data    |-> RuleGet(rules.avoid_if_no_data, TRUE)]

\* the numeric columns after _ensure_col and _safe_numeric (portfolio_actions.py:113-124)
Coerced(row) ==
    [OwnedShares |-> _safe_numeric(row.OwnedShares, 0),
     Weight      |-> _safe_numeric(row.Weight, 0),
     Score       |-> _safe_numeric(row.Score, 0),
     UpsidePct   |-> _safe_numeric(row.UpsidePct, 0)]

\* pick_action with a strict comparison against the buy thresholds
pick_action_strict(row, th) ==
    LET owned == row.OwnedShares > 0
        w == row.Weight
        score == row.Score
        upside == row.UpsidePct
        has_signal == (score # 0) \/ (upside # 0)
    IN  IF owned /\ w >= th.trim_weight THEN "TRIM"
        ELSE IF owned /\ w >= th.max_position_weight THEN "TRIM"
        ELSE IF owned /\ w < th.add_weight /\ has_signal THEN "ADD"
        ELSE IF ~owned
             THEN (IF th.avoid_if_no_data /\ ~has_signal THEN "AVOID"
                   ELSE IF (score > th.min_score_buy) \/ (upside > th.min_upside_buy) THEN "BUY"
                   ELSE "HOLD")
        ELSE "HOLD"

\* pick_action with the underweight test ahead of the overweight tests
pick_action_add_first(row, th) ==
    LET owned == row.OwnedShares > 0
        w == row.Weight
        score == row.Score
        upside == row.UpsidePct
        has_signal == (score # 0) \/ (upside # 0)
    IN  IF owned /\ w < th.add_weight /\ has_signal THEN "ADD"
        ELSE IF owned /\ w >= th.trim_weight THEN "TRIM"
        ELSE IF owned /\ w >= th.max_position_weight THEN "TRIM"
        ELSE IF ~owned
             THEN (IF th.avoid_if_no_data /\ ~has_signal THEN "AVOID"
                   ELSE IF (score >= th.min_score_buy) \/ (upside >= th.min_upside_buy) THEN "BUY"
                   ELSE "HOLD")
        ELSE "HOLD"

\* pick_action without the `if not owned` guard around the buy branch
pick_action_no_owned_guard(row, th) ==
    LET owned == row.OwnedShares > 0
        w == row.Weight
        score == row.Score
        upside == row.UpsidePct
        has_signal == (score # 0) \/ (upside # 0)
    IN  IF owned /\ w >= th.trim_weight THEN "TRIM"
        ELSE IF owned /\ w >= th.max_position_weight THEN "TRIM"
        ELSE IF owned /\ w < th.add_weight /\ has_signal THEN "ADD"
        ELSE IF th.avoid_if_no_data /\ ~has_signal THEN "AVOID"
        ELSE IF (score >= th.min_score_buy) \/ (upside >= th.min_upside_buy) THEN "BUY"
        ELSE "HOLD"

\* pick_action(row) with the thresholds th in scope (portfolio_actions.py:142-169)
pick_action(row, th) ==
    LET owned == row.OwnedShares > 0
        w == row.Weight
        score == row.Score
        upside == row.UpsidePct
        has_signal == (score # 0) \/ (upside # 0)
    IN  IF owned /\ w >= th.trim_weight THEN "TRIM"
        ELSE IF owned /\ w >= th.max_position_weight THEN "TRIM"
        ELSE IF owned /\ w < th.add_weight /\ has_signal THEN "ADD"
        ELSE IF ~owned
             THEN (IF th.avoid_if_no_data /\ ~has_signal THEN "AVOID"
                   ELSE IF (score >= th.min_score_buy) \/ (upside >= th.min_upside_buy) THEN "BUY"
                   ELSE "HOLD")
        ELSE "HOLD"

\* decide_actions(screen_df, rules): every row coerced and given its Action
decide_actions(screen_df, rules) ==
    [i \in 1..Len(screen_df) |->
        LET c == Coerced(screen_df[i])
        IN  [OwnedShares |-> c.OwnedShares, Weight |-> c.Weight, Score |-> c.Score,
             UpsidePct |-> c.UpsidePct, Action |-> pick_action(c, Thresholds(rules))]]

Opt(S) == {None} \cup {Some(v) : v \in S}

RuleSets ==
    [max_position_weight : Opt({Frac(3, 100)}),
     trim_weight         : Opt({0, Frac(5, 100)}),
     add_weight          : Opt({Frac(8, 100)}),
     min_upside_buy      : Opt({0, -Frac(10, 100)}),
     min_score_buy       : Opt({-10 * Unit, 0, 80 * Unit}),
     avoid_if_no_data    : Opt({FALSE})]

ActionRows ==
    [OwnedShares : Opt({-1 * Unit, 0, 10 * Unit}),
     Weight      : Opt({0, Frac(1, 100), Frac(5, 100), Frac(7, 100), Frac(50, 100)}),
     Score       : Opt({-5 * Unit, 0, 50 * Unit, 60 * Unit, 80 * Unit}),
     UpsidePct   : Opt({-Frac(20, 100), 0, Frac(5, 100), Frac(30, 100)})]

InitActions ==
    /\ MainOff
    /\ f_pc = "ready" /\ f_out = <<>>
    /\ f_in \in [df : {<<r>> : r \in ActionRows}, rules : RuleSets]

\* out = decide_actions(screen_df, rules)
ActionsCall ==
    /\ pc = "off" /\ f_pc = "ready"
    /\ f_out' = decide_actions(f_in.df, f_in.rules)
    /\ f_pc' = "called"
    /\ UNCHANGED <<f_in, mainVars>>

SpecActions == InitActions /\ [][ActionsCall]_vars

ActionSet == {"BUY", "ADD", "HOLD", "TRIM", "AVOID"}

HasSignal(r) == r.Score # 0 \/ r.UpsidePct # 0

\* C4 as claimed: under every rule configuration, a row with OwnedShares = 0
\* and Score >= min_score_buy gets BUY.
C4_UnownedAboveBuyBarIsBuy ==
    f_pc = "called" =>
        \A i \in 1..Len(f_out) :
            (f_out[i].OwnedShares = 0 /\ f_out[i].Score >= Thresholds(f_in.rules).min_score_buy)
                => f_out[i].Action = "BUY"

\* C4 amended: a row with OwnedShares = 0 and Score >= min_score_buy gets
\* BUY unless avoid_if_no_data is on and the row carries no signal (Score
\* and UpsidePct both zero or missing), in which case it gets AVOID.
C4_UnownedAboveBuyBarIsBuyUnlessNoData ==
    f_pc = "called" =>
        \A i \in 1..Len(f_out) :
            (f_out[i].OwnedShares = 0 /\ f_out[i].Score >= Thresholds(f_in.rules).min_score_buy)
                => f_out[i].Action =
                       IF Thresholds(f_in.rules).avoid_if_no_data /\ ~HasSignal(f_out[i])
                       THEN "AVOID" ELSE "BUY"

\* default rules, not owned, Score exactly at the default bar of 60, no upside: BUY
C4_Witness ==
    /\ f_pc = "called"
    /\ f_in.rules.min_score_buy = None /\ f_in.rules.avoid_if_no_data = None
    /\ f_in.df[1].OwnedShares = Some(0) /\ f_in.df[1].Score = Some(60 * Unit)
    /\ f_in.df[1].UpsidePct = Some(0)
    /\ f_out[1].Action = "BUY"

\* C5: under every rule configuration, a held row (OwnedShares > 0) with
\* Weight >= trim_weight gets TRIM, whatever its Score and UpsidePct.
C5_OverweightIsTrim ==
    f_pc = "called" =>
        \A i \in 1..Len(f_out) :
            (f_out[i].OwnedShares > 0 /\ f_out[i].Weight >= Thresholds(f_in.rules).trim_weight)
                => f_out[i].Action = "TRIM"

\* held, at the trim threshold yet below the add threshold, with a strong score
C5_Witness ==
    /\ f_pc = "called"
    /\ f_out[1].OwnedShares > 0
    /\ f_out[1].Weight >= Thresholds(f_in.rules).trim_weight
    /\ f_out[1].Weight < Thresholds(f_in.rules).add_weight
    /\ f_out[1].Score >= Thresholds(f_in.rules).min_score_buy /\ f_out[1].Score > 0
    /\ f_out[1].Action = "TRIM"

\* C6: every row gets one Action of {BUY, ADD, HOLD, TRIM, AVOID}; a held
\* row is never AVOID or BUY and an unowned row is never ADD or TRIM.
C6_ActionMatchesOwnership ==
    f_pc = "called" =>
        /\ Len(f_out) = Len(f_in.df)
        /\ \A i \in 1..Len(f_out) :
            /\ f_out[i].Action \in ActionSet
            /\ f_out[i].OwnedShares > 0  => f_out[i].Action \notin {"AVOID", "BUY"}
            /\ f_out[i].OwnedShares <= 0 => f_out[i].Action \notin {"ADD", "TRIM"}

\* a held row with no signal at all and a small weight is HOLD, not AVOID
C6_Witness ==
    /\ f_pc = "called"
    /\ f_out[1].OwnedShares > 0 /\ ~HasSignal(f_out[1])
    /\ Thresholds(f_in.rules).avoid_if_no_data
    /\ f_out[1].Action = "HOLD"

\* C20: a held row (OwnedShares > 0) that is below the avoid bar, the
\* condition under which an unowned row is AVOID (the no-data rule on,
\* Score and UpsidePct both zero or missing), is assigned TRIM.
C20_HeldBelowAvoidBarIsTrim ==
    f_pc = "called" =>
        \A i \in 1..Len(f_out) :
            (f_out[i].OwnedShares > 0 /\ Thresholds(f_in.rules).avoid_if_no_data
               /\ ~HasSignal(f_out[i]))
              => f_out[i].Action = "TRIM"

\* C21: ADD is assigned only to a row that is owned, has Weight below
\* add_weight and below both trim thresholds, and is still attractive:
\* Score >= min_score_buy or UpsidePct >= min_upside_buy.
C21_AddOnlyWhenAttractive ==
    f_pc = "called" =>
        \A i \in 1..Len(f_out) :
            f_out[i].Action = "ADD" =>
                LET th == Thresholds(f_in.rules)
                IN  /\ f_out[i].OwnedShares > 0
                    /\ f_out[i].Weight < th.add_weight
                    /\ f_out[i].Weight < th.trim_weight
                    /\ f_out[i].Weight < th.max_position_weight
                    /\ \/ f_out[i].Score >= th.min_score_buy
                       \/ f_out[i].UpsidePct >= th.min_upside_buy

-----------------------------------------------------------------------------
(* src/portfolio_ingest.py: load_positions_from_snowball *)

\* _norm_col(s): str(s).strip().lower().replace(" ", "_")
_norm_col(s) == ReplaceChar(StrLower(Strip(s)), " ", "_")

NormCols(columns) == [i \in 1..Len(columns) |-> _norm_col(columns[i])]
NormSet(columns)  == {_norm_col(columns[i]) : i \in 1..Len(columns)}

SetMax(S) == CHOOSE x \in S : \A y \in S : y <= x
SetMin(S) == CHOOSE x \in S : \A y \in S : x <= y

\* first loop of _find_col: the first candidate whose normal form is a column
\* (the dict keeps the last column of that normal form)
RECURSIVE FindExact(_, _)
FindExact(cols, cands) ==
    IF cands = <<>> THEN 0
    ELSE LET hits == {i \in 1..Len(cols) : cols[i] = _norm_col(Head(cands))}
         IN  IF hits # {} THEN SetMax(hits) ELSE FindExact(cols, Tail(cands))

\* second loop of _find_col: the first candidate contained in a column name,
\* columns taken in file order
RECURSIVE FindPartial(_, _)
FindPartial(cols, cands) ==
    IF cands = <<>> THEN 0
    ELSE LET hits == {i \in 1..Len(cols) : Contains(_norm_col(Head(cands)), cols[i])}
         IN  IF hits # {} THEN SetMin(hits) ELSE FindPartial(cols, Tail(cands))

\* _find_col(df, candidates): the index of the column found, 0 for None
_find_col(columns, candidates) ==
    LET cols == NormCols(columns)
        e    == FindExact(cols, candidates)
    IN  IF e # 0 THEN e ELSE FindPartial(cols, candidates)

N_event == <<"e", "v", "e", "n", "t">>
N_quantity == <<"q", "u", "a", "n", "t", "i", "t", "y">>
N_symbol == <<"s", "y", "m", "b", "o", "l">>
N_ticker == <<"t", "i", "c", "k", "e", "r">>
N_shares == <<"s", "h", "a", "r", "e", "s">>
N_share == <<"s", "h", "a", "r", "e">>
N_antal == <<"a", "n", "t", "a", "l">>
N_holding == <<"h", "o", "l", "d", "i", "n", "g">>
N_current_value == <<"c", "u", "r", "r", "e", "n", "t", "_", "v", "a", "l", "u", "e">>
N_share_price == <<"s", "h", "a", "r", "e", "_", "p", "r", "i", "c", "e">>
N_kurs == <<"k", "u", "r", "s">>

\* _detect_format(df)
_detect_format(columns) ==
    LET cols == NormSet(columns)
        has_shares == N_shares \in cols \/ N_share \in cols \/ N_antal \in cols
    IN  IF {N_event, N_quantity} \subseteq cols /\ (N_symbol \in cols \/ N_ticker \in cols)
        THEN "transactions"
        ELSE IF has_shares /\ (N_holding \in cols \/ N_symbol \in cols \/ N_ticker \in cols)
        THEN "holdings"
        ELSE IF N_holding \in cols /\ has_shares
        THEN "holdings"
        ELSE IF N_holding \in cols
                /\ (N_current_value \in cols \/ N_share_price \in cols \/ N_kurs \in cols)
        THEN "holdings"
        ELSE "unknown"

\* _apply_aliases(symbol, aliases)
_apply_aliases(symbol, aliases) ==
    IF symbol = <<>> THEN symbol ELSE DictGet(aliases, Strip(symbol), Strip(symbol))

\* a function result: a value returned or an exception raised
Returned(v) == [raised |-> FALSE, error |-> "", pos |-> v]
Raised(msg) == [raised |-> TRUE, error |-> msg, pos |-> <<>>]

\* _load_aliases(alias_csv_path): {} for a missing file; the file is read
\* with _read_csv_flexible, whose last attempt lets the parser's exception out
RECURSIVE AliasDict(_, _)
AliasDict(d, pairs) ==
    IF pairs = <<>> THEN d
    ELSE LET aa == Strip(Head(pairs)[1])
             tt == Strip(Head(pairs)[2])
         IN  IF aa # <<>> /\ tt # <<>> /\ StrLower(aa) # Nan /\ StrLower(tt) # Nan
             THEN AliasDict(DictPut(d, aa, tt), Tail(pairs))
             ELSE AliasDict(d, Tail(pairs))

_load_aliases(af) ==
    IF af.kind = "missing" THEN Returned(EmptyDict)
    ELSE IF af.kind = "unreadable" THEN Raised("EmptyDataError")
    ELSE Returned(AliasDict(EmptyDict, af.pairs))

\* pd.to_numeric(cell, errors="coerce") then fillna(0.0)
CellNumber(cell) == IF IsNone(cell.num) THEN 0 ELSE Val(cell.num)

C_Holding == <<"H", "o", "l", "d", "i", "n", "g">>
C_Symbol == <<"S", "y", "m", "b", "o", "l">>
C_Ticker == <<"T", "i", "c", "k", "e", "r">>
C_ISIN == <<"I", "S", "I", "N">>
C_Shares == <<"S", "h", "a", "r", "e", "s">>
C_Share == <<"S", "h", "a", "r", "e">>
C_Antal == <<"A", "n", "t", "a", "l">>
C_Quantity == <<"Q", "u", "a", "n", "t", "i", "t", "y">>
C_Units == <<"U", "n", "i", "t", "s">>
C_Share_in_portfolio == <<"S", "h", "a", "r", "e", "_", "i", "n", "_", "p", "o", "r", "t", "f", "o", "l", "i", "o">>
C_Shares_in_portfolio == <<"S", "h", "a", "r", "e", "s", "_", "i", "n", "_", "p", "o", "r", "t", "f", "o", "l", "i", "o">>
C_Event == <<"E", "v", "e", "n", "t">>
C_Qty == <<"Q", "t", "y">>

\* pos[pos["Shares"].abs() > 1e-9]
RECURSIVE NonZero(_)
NonZero(pos) ==
    IF pos = <<>> THEN <<>>
    ELSE IF Abs(Head(pos).Shares) > 0 THEN <<Head(pos)>> \o NonZero(Tail(pos))
    ELSE NonZero(Tail(pos))

\* _positions_from_holdings(df, aliases): one row per file row with non-zero shares
_positions_from_holdings(df, aliases) ==
    LET sym_col == _find_col(df.columns, <<C_Holding, C_Symbol, C_Ticker, C_ISIN>>)
        sc1     == _find_col(df.columns, <<C_Shares, C_Share, C_Antal, C_Quantity, C_Units>>)
        shares_col == IF sc1 # 0 THEN sc1
                      ELSE _find_col(df.columns, <<C_Share_in_portfolio, C_Shares_in_portfolio>>)
    IN  IF sym_col = 0 THEN Raised("Snowball holdings format missing ticker/holding column.")
        ELSE IF shares_col = 0 THEN Raised("Snowball holdings format missing shares/quantity column.")
        ELSE Returned(NonZero([i \in 1..Len(df.rows) |->
                 [Ticker |-> _apply_aliases(Strip(df.rows[i][sym_col].txt), aliases),
                  Shares |-> CellNumber(df.rows[i][shares_col])]]))

W_buy == <<"b", "u", "y">>
W_kob == <<"k", "ø", "b">>
W_purchase == <<"p", "u", "r", "c", "h", "a", "s", "e">>
W_sell == <<"s", "e", "l", "l">>
W_salg == <<"s", "a", "l", "g">>
W_sold == <<"s", "o", "l", "d">>

\* SignedShares with a sell counted like a buy
SignedShares_unsigned(evt_txt, qty) ==
    LET evt == StrLower(evt_txt)
        buy_mask  == Contains(W_buy, evt) \/ Contains(W_kob, evt) \/ Contains(W_purchase, evt)
        sell_mask == Contains(W_sell, evt) \/ Contains(W_salg, evt) \/ Contains(W_sold, evt)
    IN  IF sell_mask \/ buy_mask THEN qty ELSE 0

\* the signed quantity of one ledger row: +qty for a buy, -qty for a sell
\* (the sell assignment comes last), 0 for anything else
SignedShares(evt_txt, qty) ==
    LET evt == StrLower(evt_txt)
        buy_mask  == Contains(W_buy, evt) \/ Contains(W_kob, evt) \/ Contains(W_purchase, evt)
        sell_mask == Contains(W_sell, evt) \/ Contains(W_salg, evt) \/ Contains(W_sold, evt)
    IN  IF sell_mask THEN -qty ELSE IF buy_mask THEN qty ELSE 0

\* string order, for the sorted keys of groupby
CharOrder == <<" ", ".", "0", "1", "2", "3", "4", "5", "6", "7", "8", "9">>
                \o UpperChars \o <<"_">> \o LowerChars
CharRank(c) == IF \E i \in 1..Len(CharOrder) : CharOrder[i] = c
               THEN CHOOSE i \in 1..Len(CharOrder) : CharOrder[i] = c
               ELSE Len(CharOrder) + 1

RECURSIVE StrLess(_, _)
StrLess(a, b) ==
    IF a = <<>> THEN b # <<>>
    ELSE IF b = <<>> THEN FALSE
    ELSE IF Head(a) = Head(b) THEN StrLess(Tail(a), Tail(b))
    ELSE CharRank(Head(a)) < CharRank(Head(b))

RECURSIVE SortedKeys(_)
SortedKeys(S) ==
    IF S = {} THEN <<>>
    ELSE LET m == CHOOSE x \in S : \A y \in S \ {x} : StrLess(x, y)
         IN  <<m>> \o SortedKeys(S \ {m})

RECURSIVE SumSeq(_)
SumSeq(q) == IF q = <<>> THEN 0 ELSE Head(q) + SumSeq(Tail(q))

\* _positions_from_transactions(df, aliases): signed quantities summed per
\* ticker (groupby sorts the tickers), zero totals dropped
_positions_from_transactions(df, aliases) ==
    LET sym_col == _find_col(df.columns, <<C_Symbol, C_Ticker>>)
        evt_col == _find_col(df.columns, <<C_Event>>)
        qty_col == _find_col(df.columns, <<C_Quantity, C_Qty, C_Antal>>)
    IN  IF sym_col = 0 \/ evt_col = 0 \/ qty_col = 0
        THEN Raised("Snowball transactions format missing required columns.")
        ELSE LET n      == Len(df.rows)
                 sym(i) == _apply_aliases(Strip(df.rows[i][sym_col].txt), aliases)
                 sgn(i) == SignedShares(df.rows[i][evt_col].txt, CellNumber(df.rows[i][qty_col]))
                 keys   == SortedKeys({sym(i) : i \in 1..n})
                 total(k) == SumSeq([i \in 1..n |-> IF sym(i) = k THEN sgn(i) ELSE 0])
             IN  Returned(NonZero([j \in 1..Len(keys) |->
                                      [Ticker |-> keys[j], Shares |-> total(keys[j])]]))

\* load_positions_from_snowball(snowball_csv_path, alias_csv_path)
load_positions_from_snowball(file, alias_file) ==
    IF file.kind = "missing" THEN Returned(<<>>)
    ELSE LET al == IF alias_file.kind = "none" THEN Returned(EmptyDict) ELSE _load_aliases(alias_file)
         IN  IF al.raised THEN Raised(al.error)
             ELSE IF file.kind = "unreadable" THEN Raised("EmptyDataError")
             ELSE IF file.df.rows = <<>> THEN Returned(<<>>)
             ELSE LET fmt == _detect_format(file.df.columns)
                      h   == _positions_from_holdings(file.df, al.pos)
                      t   == _positions_from_transactions(file.df, al.pos)
                  IN  IF fmt = "transactions" THEN t
                      ELSE IF fmt = "holdings" THEN h
                      \* fallback: try to guess
                      ELSE IF ~h.raised THEN h
                      ELSE IF ~t.raised THEN t
                      ELSE Raised("Unknown Snowball CSV format.")

-----------------------------------------------------------------------------
(* Inputs of load_positions_from_snowball *)

MaxDataRows == 2    \* most data rows in a holdings file

TextCell(t)   == [txt |-> t, num |-> None]
NumCell(t, n) == [txt |-> t, num |-> Some(n)]

H_symbol_sp == <<" ", "s", "y", "m", "b", "o", "l", " ">>
H_SHARES == <<"S", "H", "A", "R", "E", "S">>
H_Current_value == <<"C", "u", "r", "r", "e", "n", "t", " ", "v", "a", "l", "u", "e">>
H_Ticker_Code == <<"T", "i", "c", "k", "e", "r", " ", "C", "o", "d", "e">>
H_Name == <<"N", "a", "m", "e">>
H_Price == <<"P", "r", "i", "c", "e">>
H_Shareholder == <<"S", "h", "a", "r", "e", "h", "o", "l", "d", "e", "r">>

\* the headers considered: both recognised shapes, a recognised shape without
\* a usable shares column, and column sets that match neither shape
Headers ==
    { <<C_Symbol, C_Shares>>,
      <<H_symbol_sp, H_SHARES>>,
      <<C_Holding, H_Current_value>>,
      <<C_Ticker, C_Event, C_Quantity>>,
      <<C_ISIN, C_Units>>,
      <<H_Ticker_Code, C_Event, C_Qty>>,
      <<C_ISIN, H_Shareholder>>,
      <<H_Name, H_Price>> }

SymbolCells == {TextCell(T_AA), TextCell(<<" ">> \o T_BCO)}
NumberCells == {NumCell(<<"2">>, 2), NumCell(<<"3">>, 3), NumCell(<<"-", "1">>, -1), TextCell(<<"x">>)}
EventCells  == {TextCell(<<"B", "u", "y">>), TextCell(<<"S", "E", "L", "L">>), TextCell(<<"S", "p", "l", "i", "t">>)}
OtherCells  == {TextCell(<<"x">>)}

\* what a column of that name holds
ColumnCells(name) ==
    IF name \in {C_Symbol, H_symbol_sp, C_Holding, C_Ticker, C_ISIN, H_Ticker_Code} THEN SymbolCells
    ELSE IF name \in {C_Shares, H_SHARES, C_Quantity, C_Units, C_Qty} THEN NumberCells
    ELSE IF name = C_Event THEN EventCells
    ELSE OtherCells

DataRows(h) == {r \in [1..Len(h) -> UNION {ColumnCells(h[i]) : i \in 1..Len(h)}] :
                   \A i \in 1..Len(h) : r[i] \in ColumnCells(h[i])}

Frames == UNION {[columns : {h}, rows : BoundedSeq(DataRows(h), MaxDataRows)] : h \in Headers}

NoFrame == [columns |-> <<>>, rows |-> <<>>]

SnowballFiles ==
    {[kind |-> "missing", df |-> NoFrame], [kind |-> "unreadable", df |-> NoFrame]}
      \cup {[kind |-> "ok", df |-> d] : d \in Frames}

IngestAliasFiles ==
    { [kind |-> "none", pairs |-> <<>>], [kind |-> "missing", pairs |-> <<>>],
      [kind |-> "unreadable", pairs |-> <<>>],
      [kind |-> "ok", pairs |-> << <<T_AA, T_BCO>>, <<Nan, T_AA>> >>] }

InitIngest ==
    /\ MainOff
    /\ f_pc = "ready" /\ f_out = <<>>
    /\ f_in \in [file : SnowballFiles, alias : IngestAliasFiles]

\* pos_df = load_positions_from_snowball(snowball_csv_path, alias_csv_path)
IngestCall ==
    /\ pc = "off" /\ f_pc = "ready"
    /\ f_out' = load_positions_from_snowball(f_in.file, f_in.alias)
    /\ f_pc' = "called"
    /\ UNCHANGED <<f_in, mainVars>>

SpecIngest == InitIngest /\ [][IngestCall]_vars

\* an existing, non-empty holdings file whose columns match neither shape,
\* with usable (or no) aliases
UnknownShape ==
    /\ f_in.file.kind = "ok" /\ f_in.file.df.rows # <<>>
    /\ _detect_format(f_in.file.df.columns) = "unknown"

\* C7: given an existing non-empty holdings file for which _detect_format
\* answers "unknown", load_positions_from_snowball raises and returns no
\* positions table.
C7_UnknownShapeRaises ==
    (f_pc = "called" /\ UnknownShape) => f_out.raised

\* a ledger: an existing, non-empty file with the Ticker, Event, Quantity
\* columns, read with usable (or no) aliases
IsLedger ==
    /\ f_in.file.kind = "ok" /\ f_in.file.df.rows # <<>>
    /\ f_in.file.df.columns = <<C_Ticker, C_Event, C_Quantity>>
    /\ f_in.alias.kind # "unreadable"

\* the ticker a ledger row counts for: the stripped symbol, AA renamed to
\* B.co by the alias file that says so
LedgerTicker(r) ==
    LET sym == IF r[1].txt = T_AA THEN T_AA ELSE T_BCO
    IN  IF f_in.alias.kind = "ok" /\ sym = T_AA THEN T_BCO ELSE sym

\* the quantity a ledger row adds: + for Buy, - for SELL, nothing for Split
LedgerDelta(r) ==
    LET qty == IF IsNone(r[3].num) THEN 0 ELSE Val(r[3].num)
    IN  IF r[2].txt = <<"B", "u", "y">> THEN qty
        ELSE IF r[2].txt = <<"S", "E", "L", "L">> THEN -qty
        ELSE 0

LedgerNet(k) ==
    LET lrows == f_in.file.df.rows
    IN  SumSeq([i \in 1..Len(lrows) |-> IF LedgerTicker(lrows[i]) = k THEN LedgerDelta(lrows[i]) ELSE 0])

\* C22: for a transaction ledger the positions returned hold at most one
\* row per ticker (after alias mapping), whose Shares is the sum of that
\* ticker's buy quantities minus the sum of its sell quantities, other
\* events counting zero; a ticker whose net is zero has no row.
C22_LedgerNetPerTicker ==
    (f_pc = "called" /\ IsLedger) =>
        LET lrows == f_in.file.df.rows
            held  == {k \in {LedgerTicker(lrows[i]) : i \in 1..Len(lrows)} : LedgerNet(k) # 0}
        IN  /\ ~f_out.raised
            /\ \A i, j \in 1..Len(f_out.pos) :
                  i # j => f_out.pos[i].Ticker # f_out.pos[j].Ticker
            /\ {f_out.pos[i] : i \in 1..Len(f_out.pos)}
                  = {[Ticker |-> k, Shares |-> LedgerNet(k)] : k \in held}

\* AA bought 3 and B.co sold 2, AA being an alias of B.co: B.co holds 1
C22_Witness ==
    /\ f_pc = "called" /\ IsLedger /\ f_in.alias.kind = "ok"
    /\ Len(f_in.file.df.rows) = 2
    /\ f_in.file.df.rows[1][1].txt = T_AA /\ LedgerDelta(f_in.file.df.rows[1]) = 3
    /\ f_in.file.df.rows[2][1].txt # T_AA /\ LedgerDelta(f_in.file.df.rows[2]) = -2
    /\ f_out.pos = <<[Ticker |-> T_BCO, Shares |-> 1]>>

\* C15: every per-ticker Shares value load_positions_from_snowball returns,
\* from a holdings snapshot or from a transaction ledger, is non-negative.
C15_SharesNonNegative ==
    (f_pc = "called" /\ ~f_out.raised) =>
        \A i \in 1..Len(f_out.pos) : f_out.pos[i].Shares >= 0

-----------------------------------------------------------------------------
(* screener.py: _calc_upside on its own *)

\* prices and targets in cents: absent, negative, zero, one cent, and ordinary
PriceCells == Opt({-50 * PriceUnit, -1, 0, 1, 3, 40 * PriceUnit, 50 * PriceUnit,
                   60 * PriceUnit, 200 * PriceUnit})

UpsideInputs == [price : PriceCells, target : PriceCells]

InitUpside ==
    /\ MainOff
    /\ f_pc = "ready" /\ f_in \in UpsideInputs /\ f_out = <<>>

\* upside = _calc_upside(price, target)
UpsideCall ==
    /\ pc = "off" /\ f_pc = "ready"
    /\ f_out' = _calc_upside(f_in.price, f_in.target)
    /\ f_pc' = "called"
    /\ UNCHANGED <<f_in, mainVars>>

SpecUpside == InitUpside /\ [][UpsideCall]_vars

\* C11: _calc_upside returns absent when either operand is absent or
\* price <= 0, and otherwise returns target/price - 1: the result u is
\* present and (u + 1) * price equals target to within one unit of the
\* ratio's resolution.
C11_UpsideIsRatioMinusOne ==
    f_pc = "called" =>
        IF IsNone(f_in.price) \/ IsNone(f_in.target) \/ Val(f_in.price) <= 0
        THEN IsNone(f_out)
        ELSE /\ ~IsNone(f_out)
             /\ (Val(f_out) + Unit) * Val(f_in.price) <= Val(f_in.target) * Unit
             /\ Val(f_in.target) * Unit < (Val(f_out) + Unit + 1) * Val(f_in.price)

\* 60.00 against 50.00 is +20%
C11_Witness ==
    /\ f_pc = "called"
    /\ f_in.price = Some(50 * PriceUnit) /\ f_in.target = Some(60 * PriceUnit)
    /\ f_out = Some(Frac(20, 100))

-----------------------------------------------------------------------------
(* screener.py: ticker lines, from raw text to the merged list *)

\* Python's s.startswith(pre)
StartsWith(s, pre) == Len(s) >= Len(pre) /\ SubSeq(s, 1, Len(pre)) = pre

\* position of the first "#" of s, 0 when there is none
HashAt(s) ==
    IF \E i \in 1..Len(s) : s[i] = "#"
    THEN CHOOSE i \in 1..Len(s) : s[i] = "#" /\ \A j \in 1..(i - 1) : s[j] # "#"
    ELSE 0

\* _strip_inline_comment(s)
_strip_inline_comment(s) ==
    LET t == Strip(s)
    IN  IF t = <<>> THEN <<>>
        ELSE IF HashAt(t) > 0 THEN Strip(SubSeq(t, 1, HashAt(t) - 1))
        ELSE t

\* s.split()[0] for a text that is not blank
RECURSIVE UpToBlank(_)
UpToBlank(s) ==
    IF s = <<>> \/ Head(s) = " " THEN <<>> ELSE <<Head(s)>> \o UpToBlank(Tail(s))

FirstToken(s) == UpToBlank(LStrip(s))

Http  == <<"h","t","t","p",":","/","/">>
Https == <<"h","t","t","p","s",":","/","/">>

\* _clean_ticker_line that keeps what follows a "#"
_clean_ticker_line_keep_comment(line) ==
    LET s == Strip(line)
    IN  IF s = <<>> \/ Head(s) = "#" THEN <<>>
        ELSE LET t == Strip(FirstToken(s))
             IN  IF t = <<>> THEN <<>>
                 ELSE IF StartsWith(StrLower(t), Http) \/ StartsWith(StrLower(t), Https)
                      THEN <<>>
                 ELSE t

\* _clean_ticker_line(line)
_clean_ticker_line(line) ==
    LET s == _strip_inline_comment(line)
    IN  IF s = <<>> \/ Head(s) = "#" THEN <<>>
        ELSE LET t == Strip(FirstToken(s))
             IN  IF t = <<>> THEN <<>>
                 ELSE IF StartsWith(StrLower(t), Http) \/ StartsWith(StrLower(t), Https)
                      THEN <<>>
                 ELSE t

\* the cleaned, non-empty lines of a list of raw lines, in order
RECURSIVE CleanLines(_)
CleanLines(lines) ==
    IF lines = <<>> THEN <<>>
    ELSE LET t == _clean_ticker_line(Head(lines).txt)
         IN  (IF t # <<>> THEN <<t>> ELSE <<>>) \o CleanLines(Tail(lines))

\* _read_lines_clean(path): a file that does not exist gives []
_read_lines_clean(file) == IF ~file.exists THEN <<>> ELSE CleanLines(file.lines)

\* _fetch_tickers_from_url(url): no URL or a failed request gives []
_fetch_tickers_from_url(src) == IF src.kind # "ok" THEN <<>> ELSE CleanLines(src.lines)

\* the three lists _read_all_tickers merges (screener.py:235-243)
CleanSources(src) ==
    [base   |-> _read_lines_clean(src.base),
     master |-> _read_lines_clean(src.master),
     live   |-> _fetch_tickers_from_url(src.live)]

MaxFileLines == 2   \* most lines in tickers.txt

\* a raw line and the identifier it carries (<<>> for a line that carries none)
Line(txt, ident) == [txt |-> txt, ident |-> ident]

TickerLines ==
    { Line(T_AA, T_AA),
      Line(<<" ">> \o T_AA \o <<" ">>, T_AA),
      Line(T_AA \o <<"#", "x">>, T_AA),
      Line(<<" ">> \o T_BCO \o <<" ", "#", " ", "x">>, T_BCO),
      Line(<<"#", " ">> \o T_AA, <<>>),
      Line(<<" ">>, <<>>),
      Line(<<"H","t","t","p","s",":","/","/","u">>, <<>>) }

TickerFiles(n) ==
    { [exists |-> FALSE, lines |-> <<>>] }
      \cup { [exists |-> TRUE, lines |-> l] : l \in BoundedSeq(TickerLines, n) }

LiveSources ==
    { [kind |-> "nourl", lines |-> <<>>], [kind |-> "failed", lines |-> <<>>] }
      \cup { [kind |-> "ok", lines |-> l] : l \in BoundedSeq(TickerLines, MaxSrcLen) }

TickerSources ==
    [base : TickerFiles(MaxFileLines), master : TickerFiles(MaxSrcLen), live : LiveSources]

InitTickers ==
    /\ MainOff
    /\ f_pc = "ready" /\ f_in \in TickerSources /\ f_out = <<>>

\* raw_tickers = _read_all_tickers()
TickersCall ==
    /\ pc = "off" /\ f_pc = "ready"
    /\ f_out' = _read_all_tickers(CleanSources(f_in))
    /\ f_pc' = "called"
    /\ UNCHANGED <<f_in, mainVars>>

SpecTickers == InitTickers /\ [][TickersCall]_vars

\* the identifiers carried by the lines of base, master, live, in that order
Carried(src) ==
    LET all == src.base.lines \o src.master.lines \o src.live.lines
    IN  [i \in 1..Len(all) |-> all[i].ident]

\* position of the first occurrence of x in q
FirstAt(q, x) == CHOOSE i \in 1..Len(q) : q[i] = x /\ \A j \in 1..(i - 1) : q[j] # x

\* C12: the list _read_all_tickers returns has no blank entry, no comment
\* line and no comment text (no "#", no blank inside an entry), holds
\* every identifier carried by a line of any source exactly once, and
\* orders them by first occurrence in base, master, live.
C12_TickersCleanUniqueInOrder ==
    f_pc = "called" =>
        LET out == f_out
            all == Carried(f_in)
        IN  /\ \A i \in 1..Len(out) :
                  out[i] # <<>> /\ \A k \in 1..Len(out[i]) : out[i][k] \notin {"#", " "}
            /\ \A i, j \in 1..Len(out) : i # j => out[i] # out[j]
            /\ {out[i] : i \in 1..Len(out)} = {all[k] : k \in 1..Len(all)} \ {<<>>}
            /\ \A i, j \in 1..Len(out) : i < j => FirstAt(all, out[i]) < FirstAt(all, out[j])

\* base carries B.co behind a comment line, master adds AA with an inline
\* comment, live repeats AA: the list is B.co, AA
C12_Witness ==
    /\ f_pc = "called"
    /\ f_in.base.lines = << Line(<<"#", " ">> \o T_AA, <<>>),
                            Line(<<" ">> \o T_BCO \o <<" ", "#", " ", "x">>, T_BCO) >>
    /\ f_in.master.lines = << Line(T_AA \o <<"#", "x">>, T_AA) >>
    /\ f_in.live.lines = << Line(T_AA, T_AA) >>
    /\ f_out = <<T_BCO, T_AA>>

-----------------------------------------------------------------------------
(* src/portfolio_actions.py: apply_portfolio_context *)

\* _normalize_symbol(s)
_normalize_symbol(s) == StrUpper(Strip(s))

\* Weight computed whenever the total is not zero
WeightOf_nonzero_total(owned_value, total) ==
    IF total # 0 THEN (owned_value * Unit) \div total ELSE 0

\* out["Weight"]: OwnedValue / total if total > 0, else 0.0
\* (portfolio_actions.py:86-90); a ratio in units of 1/Unit
WeightOf(owned_value, total) ==
    IF total > 0 THEN (owned_value * Unit) \div total ELSE 0

\* the safe defaults of the two early returns: the three columns at 0.0
ContextDefaults(srows, normalise) ==
    [i \in 1..Len(srows) |->
        [key |-> IF normalise THEN _normalize_symbol(srows[i].key) ELSE srows[i].key,
         Price |-> srows[i].Price,
         OwnedShares |-> 0, OwnedValue |-> 0, Weight |-> 0]]

\* apply_portfolio_context(screen_df, pos_df).  Shares in whole units,
\* prices and values in cents.
apply_portfolio_context(screen_df, pos_df) ==
    IF screen_df.key_col = "none" THEN ContextDefaults(screen_df.rows, FALSE)
    ELSE IF "Symbol" \notin pos_df.cols THEN ContextDefaults(screen_df.rows, TRUE)
    ELSE LET n == Len(pos_df.rows)
             shares(i) == IF "Shares" \in pos_df.cols
                          THEN _safe_numeric(pos_df.rows[i].Shares, 0) ELSE 0
             symbols   == {_normalize_symbol(pos_df.rows[i].key) : i \in 1..n}
             \* pos.groupby("Symbol")["Shares"].sum()
             pos_agg(k) == SumSeq([i \in 1..n |->
                              IF _normalize_symbol(pos_df.rows[i].key) = k THEN shares(i) ELSE 0])
             key(j)    == _normalize_symbol(screen_df.rows[j].key)
             \* left merge, then _safe_numeric(OwnedShares, 0.0)
             owned(j)  == IF key(j) \in symbols THEN pos_agg(key(j)) ELSE 0
             price(j)  == IF screen_df.has_price
                          THEN Some(_safe_numeric(screen_df.rows[j].Price, 0)) ELSE None
             value(j)  == IF screen_df.has_price THEN owned(j) * Val(price(j)) ELSE 0
             total     == SumSeq([j \in 1..Len(screen_df.rows) |-> value(j)])
         IN  [j \in 1..Len(screen_df.rows) |->
                 [key |-> key(j), Price |-> price(j),
                  OwnedShares |-> owned(j), OwnedValue |-> value(j),
                  Weight |-> WeightOf(value(j), total)]]

MaxScreenRows == 2   \* most rows of the screener frame given to the overlay
MaxPosRows == 2      \* most rows of the positions frame

T_bco_sp == <<" ", "b", ".", "c", "o">>

\* prices in cents; None is a NaN or non-numeric cell
ScreenRows == [key : {T_AA, T_BCO},
               Price : {None, Some(-5 * PriceUnit), Some(10 * PriceUnit)}]

\* the screener frame: keyed by Ticker or by Symbol, with or without a
\* Price column, or with no key column at all
ScreenFrames ==
    { [key_col |-> k[1], has_price |-> k[2], rows |-> r] :
        k \in { <<"Ticker", TRUE>>, <<"Symbol", TRUE>>, <<"Ticker", FALSE>>, <<"none", TRUE>> },
        r \in BoundedSeq(ScreenRows, MaxScreenRows) \ {<<>>} }

PosRows == [key : {T_AA, T_bco_sp}, Shares : {None, Some(-2), Some(2)}]

\* the positions frame: Symbol and Shares, Symbol alone, or the Ticker and
\* Shares columns that load_positions_from_snowball returns
PosFrames ==
    { [cols |-> c, rows |-> r] :
        c \in { {"Symbol", "Shares"}, {"Symbol"}, {"Ticker", "Shares"} },
        r \in BoundedSeq(PosRows, MaxPosRows) }

InitContext ==
    /\ MainOff
    /\ f_pc = "ready" /\ f_out = <<>>
    /\ f_in \in [screen_df : ScreenFrames, pos_df : PosFrames]

\* out = apply_portfolio_context(screen_df, pos_df)
ContextCall ==
    /\ pc = "off" /\ f_pc = "ready"
    /\ f_out' = apply_portfolio_context(f_in.screen_df, f_in.pos_df)
    /\ f_pc' = "called"
    /\ UNCHANGED <<f_in, mainVars>>

SpecContext == InitContext /\ [][ContextCall]_vars

TotalOwnedValue(out) == SumSeq([j \in 1..Len(out) |-> out[j].OwnedValue])

\* C14: after apply_portfolio_context every row has OwnedValue =
\* OwnedShares * Price (a missing price counting as 0) and Weight =
\* OwnedValue / total, to the ratio's resolution, when the total OwnedValue
\* is positive, and Weight = 0 in every row when it is not; with
\* non-negative shares and prices every Weight is in [0, 1] and the weights
\* add up to 1 when the total is positive.
C14_WeightsAreSharesOfTotal ==
    f_pc = "called" =>
        LET out   == f_out
            n     == Len(out)
            total == TotalOwnedValue(out)
        IN  /\ n = Len(f_in.screen_df.rows)
            /\ \A j \in 1..n : out[j].OwnedValue = out[j].OwnedShares * OrZero(out[j].Price)
            /\ total > 0 =>
                 \A j \in 1..n :
                    /\ out[j].Weight * total <= out[j].OwnedValue * Unit
                    /\ out[j].OwnedValue * Unit < (out[j].Weight + 1) * total
            /\ total <= 0 => \A j \in 1..n : out[j].Weight = 0
            /\ (\A j \in 1..n : out[j].OwnedShares >= 0 /\ OrZero(out[j].Price) >= 0) =>
                 /\ \A j \in 1..n : 0 <= out[j].Weight /\ out[j].Weight <= Unit
                 /\ total > 0 =>
                      LET sum == SumSeq([j \in 1..n |-> out[j].Weight])
                      IN  Unit - n < sum /\ sum <= Unit

\* two shares of AA and two of B.co, both at 10.00: half the portfolio each
C14_Witness ==
    /\ f_pc = "called" /\ Len(f_out) = 2
    /\ f_out[1].key # f_out[2].key
    /\ f_out[1].OwnedShares = 2 /\ f_out[1].Price = Some(10 * PriceUnit)
    /\ f_out[2].OwnedShares = 2 /\ f_out[2].Price = Some(10 * PriceUnit)
    /\ f_out[1].Weight = Frac(50, 100) /\ f_out[2].Weight = Frac(50, 100)

-----------------------------------------------------------------------------
(* screener.py: the payout warning of a row *)

\* a sector text and whether it names one of the sheltered sectors
SectorCase(txt, sheltered) == [txt |-> txt, sheltered |-> sheltered]

SectorCases ==
    { SectorCase(None, FALSE),
      SectorCase(Some(<<>>), FALSE),
      SectorCase(Some(Technology), FALSE),
      SectorCase(Some(<<"R","e","a","l","E","s","t","a","t","e">>), FALSE),
      SectorCase(Some(REIT_Sector), TRUE),
      SectorCase(Some(<<" ","E","N","E","R","G","Y"," ">>), TRUE),
      SectorCase(Some(<<"F","i","n","a","n","c","i","a","l"," ","S","e","r","v","i","c","e","s">>), TRUE),
      SectorCase(Some(<<"O","i","l"," ","&"," ","e","n","e","r","g","y">>), TRUE) }

\* payout ratios as the provider gives them (fractions): absent, negative,
\* ordinary, exactly 90%, just above 90%, and above 100%
PayoutRatios == Opt({-Frac(20, 100), Frac(50, 100), Frac(90, 100), Frac(90, 100) + 1,
                     Frac(95, 100), Frac(150, 100)})

PayoutInputs == [sector : SectorCases, payoutRatio : PayoutRatios,
                 targetMeanPrice : {None, Some(40 * PriceUnit), Some(60 * PriceUnit)}]

\* the provider answer carrying these fields, the sector in info["sector"]
PayoutResp(x) ==
    [BlankResp EXCEPT !.last_price = Some(50 * PriceUnit),
                      !.targetMeanPrice = x.targetMeanPrice,
                      !.dividendYield = Some(Frac(3, 100)),
                      !.sector = x.sector.txt, !.payoutRatio = x.payoutRatio]

InitPayout ==
    /\ MainOff
    /\ f_pc = "ready" /\ f_in \in PayoutInputs /\ f_out = <<>>

\* one loop iteration of main() for this answer, and the rule on its own
PayoutCall ==
    /\ pc = "off" /\ f_pc = "ready"
    /\ f_out' = [row  |-> LoopRow(T_AA, T_AA, EmptyDict, {}, PayoutResp(f_in)),
                 flag |-> _should_flag_payout(_safe_str(f_in.sector.txt),
                                              Times100(f_in.payoutRatio))]
    /\ f_pc' = "called"
    /\ UNCHANGED <<f_in, mainVars>>

SpecPayout == InitPayout /\ [][PayoutCall]_vars

\* C16: _should_flag_payout is true exactly when the payout ratio is present
\* and above 90% and the sector names none of real estate, energy,
\* financial in any letter case; the row's Signal carries the warning
\* marker exactly when the rule is true for the row's sector and payout.
C16_PayoutWarningIsSectorAware ==
    f_pc = "called" =>
        LET above90 == ~IsNone(f_in.payoutRatio) /\ Val(f_in.payoutRatio) > Frac(90, 100)
        IN  /\ f_out.flag <=> (above90 /\ ~f_in.sector.sheltered)
            /\ f_out.row.Signal.warn <=> f_out.flag
            /\ f_out.row.Signal.warn <=>
                  _should_flag_payout(f_out.row.Sector, Times100(f_in.payoutRatio))

\* 95% payout: flagged for Technology
C16_Witness ==
    /\ f_pc = "called"
    /\ f_in.payoutRatio = Some(Frac(95, 100)) /\ f_in.sector.txt = Some(Technology)
    /\ f_out.flag /\ f_out.row.Signal.warn /\ f_out.row.Status = "OK"

-----------------------------------------------------------------------------
(* src/evaluator.py: signal over the whole score range *)

MaxScoreArg == 105   \* scores from -5 up to this are classified

ScorePairs == {p \in (-5..MaxScoreArg) \X (-5..MaxScoreArg) : p[1] <= p[2]}

InitTiers ==
    /\ MainOff
    /\ f_pc = "ready" /\ f_in \in ScorePairs /\ f_out = <<>>

\* df["Signal"] = df["Score"].apply(signal), for two scores
TiersCall ==
    /\ pc = "off" /\ f_pc = "ready"
    /\ f_out' = <<signal(f_in[1]), signal(f_in[2])>>
    /\ f_pc' = "called"
    /\ UNCHANGED <<f_in, mainVars>>

SpecTiers == InitTiers /\ [][TiersCall]_vars

\* rank of a tier, WATCH lowest
TierRank(label) ==
    CASE label = "WATCH" -> 1 [] label = "HOLD" -> 2 [] label = "BUY" -> 3
      [] label = "GOLD" -> 4 [] OTHER -> 0

\* C18: evaluator.signal returns GOLD exactly when Score >= 85, BUY exactly
\* when 70 <= Score < 85, HOLD exactly when 55 <= Score < 70 and WATCH
\* exactly when Score < 55; of two scores the higher never gets the lower
\* tier.
C18_SignalTiersMonotone ==
    f_pc = "called" =>
        /\ \A k \in 1..2 :
              /\ f_out[k] = "GOLD"  <=> f_in[k] >= 85
              /\ f_out[k] = "BUY"   <=> (70 <= f_in[k] /\ f_in[k] < 85)
              /\ f_out[k] = "HOLD"  <=> (55 <= f_in[k] /\ f_in[k] < 70)
              /\ f_out[k] = "WATCH" <=> f_in[k] < 55
        /\ TierRank(f_out[1]) <= TierRank(f_out[2])

\* 84 is BUY and 85 is GOLD
C18_Witness ==
    /\ f_pc = "called" /\ f_in = <<84, 85>>
    /\ f_out = <<"BUY", "GOLD">>

-----------------------------------------------------------------------------
(* screener.py: _make_signal on its own *)

\* percentages around each threshold of _make_signal, in units of 1/Unit
ReturnPcts == Opt({-3 * Unit, 5 * Unit - 1, 5 * Unit, 10 * Unit - 1, 10 * Unit,
                   15 * Unit - 1, 15 * Unit, 20 * Unit})
UpsidePcts == Opt({-1, 0, 10 * Unit - 1, 10 * Unit, 12 * Unit})

SignalInputs ==
    [total_return_pct : ReturnPcts, upside_pct : UpsidePcts,
     sector : {Technology, REIT_Sector},
     payout_ratio_pct : {None, Some(50 * Unit), Some(95 * Unit)}]

InitSignal ==
    /\ MainOff
    /\ f_pc = "ready" /\ f_in \in SignalInputs /\ f_out = <<>>

\* signal = _make_signal(total_return_pct, upside_pct, sector, payout_ratio_pct)
SignalCall ==
    /\ pc = "off" /\ f_pc = "ready"
    /\ f_out' = _make_signal(f_in.total_return_pct, f_in.upside_pct, f_in.sector,
                             f_in.payout_ratio_pct)
    /\ f_pc' = "called"
    /\ UNCHANGED <<f_in, mainVars>>

SpecSignal == InitSignal /\ [][SignalCall]_vars

\* C19: the label of _make_signal is WATCH whenever the upside is negative
\* or the total return is absent or below 5%, whatever the sector and the
\* payout; otherwise it is GOLD exactly when total return >= 15% and the
\* upside is present and >= 10%, BUY exactly when total return >= 10% and
\* the GOLD condition fails, and HOLD exactly when 5% <= total return < 10%.
C19_SignalLabelByReturnAndUpside ==
    f_pc = "called" =>
        LET tr == f_in.total_return_pct
            up == f_in.upside_pct
            watch == (~IsNone(up) /\ Val(up) < 0) \/ IsNone(tr) \/ Val(tr) < 5 * Unit
            gold  == Val(tr) >= 15 * Unit /\ ~IsNone(up) /\ Val(up) >= 10 * Unit
        IN  IF watch THEN f_out.label = "WATCH"
            ELSE /\ f_out.label = "GOLD" <=> gold
                 /\ f_out.label = "BUY"  <=> (Val(tr) >= 10 * Unit /\ ~gold)
                 /\ f_out.label = "HOLD" <=> (5 * Unit <= Val(tr) /\ Val(tr) < 10 * Unit)
                 /\ f_out.label \in {"GOLD", "BUY", "HOLD"}

\* a 20% total return with no upside figure is BUY, not GOLD
C19_Witness ==
    /\ f_pc = "called"
    /\ f_in.total_return_pct = Some(20 * Unit) /\ IsNone(f_in.upside_pct)
    /\ f_out.label = "BUY"

-----------------------------------------------------------------------------
(* portfolio_ingest.py into portfolio_actions.py: positions handed to the overlay *)

\* the frame load_positions_from_snowball returns: columns Ticker, Shares
\* (portfolio_ingest.py:124-127, 149-152, 164)
PositionsFrame(pos) ==
    [cols |-> {"Ticker", "Shares"},
     rows |-> [i \in 1..Len(pos) |-> [key |-> pos[i].Ticker, Shares |-> Some(pos[i].Shares)]]]

\* screener frames keyed by Ticker with a price of 10.00 in every row
ComposeScreens ==
    { [key_col |-> "Ticker", has_price |-> TRUE, rows |-> r] :
        r \in BoundedSeq([key : {T_AA, T_BCO}, Price : {Some(10 * PriceUnit)}], MaxScreenRows) \ {<<>>} }

InitCompose ==
    /\ MainOff
    /\ f_pc = "ready" /\ f_out = <<>>
    /\ f_in \in [file : SnowballFiles, alias : IngestAliasFiles, screen_df : ComposeScreens]

\* pos_df = load_positions_from_snowball(...), then
\* out = apply_portfolio_context(screen_df, pos_df) unless the load raised
ComposeCall ==
    /\ pc = "off" /\ f_pc = "ready"
    /\ LET pos_df == load_positions_from_snowball(f_in.file, f_in.alias)
       IN  f_out' = [pos_df |-> pos_df,
                     out |-> IF pos_df.raised THEN <<>>
                             ELSE apply_portfolio_context(f_in.screen_df,
                                                          PositionsFrame(pos_df.pos))]
    /\ f_pc' = "called"
    /\ UNCHANGED <<f_in, mainVars>>

SpecCompose == InitCompose /\ [][ComposeCall]_vars

\* the shares the positions table holds for the ticker of a screener row
PositionShares(pos, key) ==
    SumSeq([i \in 1..Len(pos) |->
               IF _normalize_symbol(pos[i].Ticker) = key THEN pos[i].Shares ELSE 0])

\* C23: with the positions table of load_positions_from_snowball passed as
\* pos_df to apply_portfolio_context, every screener row whose ticker has a
\* position in the table gets OwnedShares equal to the shares of that
\* position.
C23_PositionsReachTheOverlay ==
    (f_pc = "called" /\ ~f_out.pos_df.raised) =>
        \A j \in 1..Len(f_out.out) :
            (\E i \in 1..Len(f_out.pos_df.pos) :
                 _normalize_symbol(f_out.pos_df.pos[i].Ticker) = f_out.out[j].key)
              => f_out.out[j].OwnedShares = PositionShares(f_out.pos_df.pos, f_out.out[j].key)

-----------------------------------------------------------------------------
(* main(): the Action and the Signal of one row *)

AgreeYields  == {None} \cup {Some(Frac(k, 100)) : k \in {0, 2, 4, 5, 10, 15, 20, 25, 30}}
AgreeTargets == {None} \cup {Some(k * PriceUnit) : k \in {40, 45, 50, 55, 60}}

AgreeInputs == [dividendYield : AgreeYields, targetMeanPrice : AgreeTargets,
                payoutRatio : {None, Some(Frac(50, 100)), Some(Frac(95, 100))}]

\* the provider answer carrying these fields at a price of 50.00
AgreeResp(x) ==
    [BlankResp EXCEPT !.last_price = Some(50 * PriceUnit),
                      !.targetMeanPrice = x.targetMeanPrice,
                      !.dividendYield = x.dividendYield,
                      !.sector = Some(Technology),
                      !.payoutRatio = x.payoutRatio]

InitAgree ==
    /\ MainOff
    /\ f_pc = "ready" /\ f_in \in AgreeInputs /\ f_out = <<>>

\* one loop iteration of main() for this answer
AgreeCall ==
    /\ pc = "off" /\ f_pc = "ready"
    /\ f_out' = LoopRow(T_AA, T_AA, EmptyDict, {}, AgreeResp(f_in))
    /\ f_pc' = "called"
    /\ UNCHANGED <<f_in, mainVars>>

SpecAgree == InitAgree /\ [][AgreeCall]_vars

\* C25: on every OK row main() builds, Signal and Action agree: GOLD goes
\* with STRONG_BUY, BUY with BUY or STRONG_BUY, HOLD with HOLD, and an Action
\* of BUY or STRONG_BUY goes with a Signal of GOLD or BUY.
C25_SignalAgreesWithAction ==
    (f_pc = "called" /\ f_out.Status = "OK") =>
        /\ f_out.Signal.label = "GOLD" => f_out.Action = "STRONG_BUY"
        /\ f_out.Signal.label = "BUY"  => f_out.Action \in {"BUY", "STRONG_BUY"}
        /\ f_out.Signal.label = "HOLD" => f_out.Action = "HOLD"
        /\ f_out.Action \in {"BUY", "STRONG_BUY"} => f_out.Signal.label \in {"GOLD", "BUY"}

====
